---- MODULE Spec2Model ----
(***************************************************************************)
(* A model of create-purescript-deno-project: the engine that validates a  *)
(* target directory, picks the Local or the Remote materializer from the   *)
(* scheme of its own module URL, materializes a template there and         *)
(* optionally runs the npm build.                                          *)
(*                                                                         *)
(* Strings are sequences of tokens: "/" , "\n", " ", ".template", ".zip",  *)
(* "..", "." and name tokens.  A path of the file system is the sequence   *)
(* of its segments from the root, a segment being a string.                *)
(***************************************************************************)
EXTENDS Integers, Sequences, FiniteSets, TLC

(***************************************************************************)
(* Bounds of the model.                                                    *)
(***************************************************************************)
\* invocations of the engine in one behaviour
MaxRuns == 2

(***************************************************************************)
(* Strings and @std/path.                                                  *)
(***************************************************************************)
SLASH == "/"
NL == "\n"
Whitespace == {" ", "\t", "\r", NL}

\* String.prototype.split(sep): the pieces between the separators, empty
\* pieces included.
Split(s, sep) ==
  LET RECURSIVE go(_, _, _)
      go(i, cur, acc) ==
        IF i > Len(s) THEN Append(acc, cur)
        ELSE IF s[i] = sep THEN go(i + 1, <<>>, Append(acc, cur))
        ELSE go(i + 1, Append(cur, s[i]), acc)
  IN go(1, <<>>, <<>>)

\* Array.prototype.join(sep)
JoinWith(parts, sep) ==
  LET RECURSIVE go(_)
      go(i) ==
        IF i > Len(parts) THEN <<>>
        ELSE IF i = 1 THEN parts[1] \o go(2)
        ELSE <<sep>> \o parts[i] \o go(i + 1)
  IN go(1)

\* String.prototype.trim()
Trim(s) ==
  LET RECURSIVE dropLeft(_)
      dropLeft(t) == IF t # <<>> /\ Head(t) \in Whitespace
                     THEN dropLeft(Tail(t)) ELSE t
      RECURSIVE dropRight(_)
      dropRight(t) == IF t # <<>> /\ t[Len(t)] \in Whitespace
                      THEN dropRight(SubSeq(t, 1, Len(t) - 1)) ELSE t
  IN dropRight(dropLeft(s))

\* String.prototype.endsWith
EndsWith(s, tok) == s # <<>> /\ s[Len(s)] = tok

\* posix normalize of an absolute path given by its segments: empty and "."
\* segments vanish, ".." removes the segment before it (the root stays).
NormalizeSegs(segs) ==
  LET RECURSIVE go(_, _)
      go(i, acc) ==
        IF i > Len(segs) THEN acc
        ELSE IF segs[i] = <<>> \/ segs[i] = <<".">> THEN go(i + 1, acc)
        ELSE IF segs[i] = <<"..">>
             THEN go(i + 1, IF acc = <<>> THEN acc
                            ELSE SubSeq(acc, 1, Len(acc) - 1))
        ELSE go(i + 1, Append(acc, segs[i]))
  IN go(1, <<>>)

\* path.isAbsolute
isAbsolute(s) == s # <<>> /\ s[1] = SLASH

\* path.join(dir, s) for an absolute dir given by its segments
join(dir, s) == NormalizeSegs(dir \o Split(s, SLASH))

\* path.resolve(cwd, s)
resolve(cwd, s) ==
  IF isAbsolute(s) THEN NormalizeSegs(Split(s, SLASH)) ELSE join(cwd, s)

\* path.dirname of an absolute path given by its segments
dirname(p) == IF p = <<>> THEN <<>> ELSE SubSeq(p, 1, Len(p) - 1)

IsPrefix(p, q) == Len(p) <= Len(q) /\ SubSeq(q, 1, Len(p)) = p
IsStrictPrefix(p, q) == Len(p) < Len(q) /\ SubSeq(q, 1, Len(p)) = p

(***************************************************************************)
(* The file system: a function from the paths that exist to their nodes.   *)
(* The root always exists and is not in the domain.                        *)
(***************************************************************************)
DirNode == [kind |-> "dir", bytes |-> <<>>, entries |-> <<>>]
FileNode(b) == [kind |-> "file", bytes |-> b, entries |-> <<>>]
\* a zip archive: a file holding the sequence of its entries
ZipNode(es) == [kind |-> "file", bytes |-> <<"PK">>, entries |-> es]

Exists(f, p) == p = <<>> \/ p \in DOMAIN f
IsDir(f, p) == p = <<>> \/ (p \in DOMAIN f /\ f[p].kind = "dir")
IsFile(f, p) == p \in DOMAIN f /\ f[p].kind = "file"
Children(f, p) == {q \in DOMAIN f : Len(q) = Len(p) + 1 /\ IsPrefix(p, q)}
Prefixes(p) == {SubSeq(p, 1, n) : n \in 1..Len(p)}
\* some proper ancestor of p is not a directory: the OS answers ENOTDIR
BlockedByFile(f, p) == \E a \in Prefixes(dirname(p)) : IsFile(f, a)

\* Deno.mkdir(p) without recursive: p must not exist and its parent must
CanMkdirNotRecursive(f, p) == ~Exists(f, p) /\ IsDir(f, dirname(p))

\* Deno.mkdir(p, {recursive: true}) can be carried out
CanMkdirP(f, p) == \A a \in Prefixes(p) : ~IsFile(f, a)
MkdirP(f, p) ==
  [q \in DOMAIN f \cup Prefixes(p) |-> IF q \in DOMAIN f THEN f[q] ELSE DirNode]

\* writing a file needs its parent directory and no directory in its place
CanWrite(f, p) == p # <<>> /\ IsDir(f, dirname(p)) /\ ~IsDir(f, p)
Put(f, p, node) == [q \in DOMAIN f \cup {p} |-> IF q = p THEN node ELSE f[q]]
\* Deno.remove(p) of a file
Remove(f, p) == [q \in DOMAIN f \ {p} |-> f[q]]

\* the tree below base, by paths relative to base
Subtree(f, base) ==
  LET below == {q \in DOMAIN f : IsStrictPrefix(base, q)}
  IN [r \in {SubSeq(q, Len(base) + 1, Len(q)) : q \in below} |-> f[base \o r]]

(***************************************************************************)
(* Manifests and the packaged archives (scripts/zip-template.ts).           *)
(***************************************************************************)
\* the lines filtered before they are trimmed
ParseManifestFilterFirst(text) ==
  LET lines == SelectSeq(Split(text, NL), LAMBDA line : Len(line) > 0)
  IN [i \in 1..Len(lines) |-> Trim(lines[i])]

\* the manifest's lines, trimmed, the empty ones dropped, in order
ParseManifest(text) ==
  LET lines == Split(text, NL)
      trimmed == [i \in 1..Len(lines) |-> Trim(lines[i])]
  IN SelectSeq(trimmed, LAMBDA line : Len(line) > 0)

\* `zip -r zipPath .` run in templateDir: everything below it, as the earlier
\* zip-template.ts packaged a template
ZipEntriesRecursive(f, templateDir, filesToInclude) ==
  LET sub == Subtree(f, templateDir)
      RECURSIVE list(_)
      list(S) == IF S = {} THEN <<>>
                 ELSE LET r == CHOOSE x \in S : \A y \in S : Len(x) <= Len(y)
                      IN <<[path |-> JoinWith(r, SLASH), kind |-> sub[r].kind,
                            bytes |-> sub[r].bytes]>> \o list(S \ {r})
  IN list(DOMAIN sub)

\* `zip zipPath ...filesToInclude` run in templateDir: one entry per listed
\* name that exists there, in the order given (no -r: a directory is stored
\* as a directory entry, without what is below it)
ZipEntries(f, templateDir, filesToInclude) ==
  LET present == SelectSeq(filesToInclude,
                           LAMBDA name : join(templateDir, name) \in DOMAIN f)
  IN [i \in 1..Len(present) |->
        [path |-> present[i],
         kind |-> f[join(templateDir, present[i])].kind,
         bytes |-> f[join(templateDir, present[i])].bytes]]

zipSingleTemplate(f, cwd, templateName) ==
  LET zipPath == join(cwd, <<"templates", SLASH>> \o templateName \o <<".zip">>)
      templateDir == join(cwd, <<"templates", SLASH>> \o templateName)
      manifestPath == join(templateDir, <<"template.manifest">>)
      removed == IF zipPath \in DOMAIN f THEN Remove(f, zipPath) ELSE f
  IN IF ~IsFile(removed, manifestPath) THEN removed
     ELSE Put(removed, zipPath,
              ZipNode(ZipEntries(removed, templateDir,
                                 ParseManifest(removed[manifestPath].bytes))))

zipAllTemplates(f, cwd) ==
  LET dirs == {d \in Children(f, join(cwd, <<"templates">>)) : IsDir(f, d)}
      RECURSIVE go(_, _)
      go(g, S) == IF S = {} THEN g
                  ELSE LET d == CHOOSE x \in S : TRUE
                       IN go(zipSingleTemplate(g, cwd, d[Len(d)]), S \ {d})
  IN go(f, dirs)

(***************************************************************************)
(* The world the engine runs in: the package at /app with its template     *)
(* store, the same package served over http below /pkg, and the candidate  *)
(* targets below /tmp.                                                     *)
(***************************************************************************)
\* a path whose segments are single tokens
P(names) == [i \in 1..Len(names) |-> <<names[i]>>]

PackageRoot == P(<<"app">>)
Cwd == P(<<"tmp">>)

ServerManifest == <<"src", SLASH, "Main.purs", NL, "package.json", NL>>
CliManifest == <<"src", SLASH, "Main.purs", NL, NL, " ", "spago.yaml", " ", NL,
                 "test", NL>>

RepositoryFiles ==
  <<
    <<P(<<"app">>), DirNode>>,
    <<P(<<"app", "mod.ts">>), FileNode(<<"engine">>)>>,
    <<P(<<"app", "templates">>), DirNode>>,
    <<P(<<"app", "templates", "server">>), DirNode>>,
    <<P(<<"app", "templates", "server", "template.manifest">>), FileNode(ServerManifest)>>,
    <<P(<<"app", "templates", "server", "src">>), DirNode>>,
    <<P(<<"app", "templates", "server", "src", "Main.purs">>), FileNode(<<"server main">>)>>,
    <<P(<<"app", "templates", "server", "package.json">>), FileNode(<<"server package">>)>>,
    <<P(<<"app", "templates", "server", "README.md">>), FileNode(<<"server readme">>)>>,
    <<P(<<"app", "templates", "cli">>), DirNode>>,
    <<P(<<"app", "templates", "cli", "template.manifest">>), FileNode(CliManifest)>>,
    <<P(<<"app", "templates", "cli", "src">>), DirNode>>,
    <<P(<<"app", "templates", "cli", "src", "Main.purs">>), FileNode(<<"cli main">>)>>,
    <<P(<<"app", "templates", "cli", "spago.yaml">>), FileNode(<<"cli spago">>)>>,
    <<P(<<"app", "templates", "cli", "test">>), DirNode>>,
    <<P(<<"app", "templates", "cli", "test", "Main.purs">>), FileNode(<<"cli test">>)>>
  >>

TargetFiles ==
  <<
    <<P(<<"tmp">>), DirNode>>,
    <<P(<<"tmp", "e">>), DirNode>>,
    <<P(<<"tmp", "n">>), DirNode>>,
    <<P(<<"tmp", "n", "stale.txt">>), FileNode(<<"stale">>)>>,
    <<P(<<"tmp", "f">>), FileNode(<<"plain">>)>>,
    <<P(<<"tmp", "templates">>), DirNode>>
  >>

FromList(l) ==
  [p \in {l[i][1] : i \in 1..Len(l)} |->
     (CHOOSE e \in {l[i] : i \in 1..Len(l)} : e[1] = p)[2]]

\* the repository after scripts/zip-template.ts has packaged its templates
PublishedFS == zipAllTemplates(FromList(RepositoryFiles \o TargetFiles), PackageRoot)

\* what the http server answers for a URL path: the published package,
\* served below /pkg
Served(urlPath) ==
  IF Len(urlPath) >= 1 /\ urlPath[1] = <<"pkg">>
     /\ IsFile(PublishedFS, PackageRoot \o Tail(urlPath))
  THEN <<PublishedFS[PackageRoot \o Tail(urlPath)]>>
  ELSE <<>>

(***************************************************************************)
(* The state of the engine (create-purescript-deno-project.ts).             *)
(***************************************************************************)
VARIABLES
  fs,               \* the file system
  pc,               \* where the running invocation stands; "idle" when none runs
  runs,             \* invocations started so far
  moduleUrl,        \* import.meta.url of the engine, a string
  targetDirectory,  \* the resolved target, by its segments
  opts,             \* { ...defaultOptions, ...options }
  outcome,          \* "none" | "running" | "ok" | "exit" (Deno.exit(1)) | "rejected"
  error,            \* what the invocation failed with, "none" otherwise
  httpStatus,       \* resp.status of the fetch, 0 when there was none
  zipData,          \* the downloaded body
  ops,              \* the system calls of this invocation, in order
  env,              \* what the environment answered in this invocation: the fetch
                    \* status, the entries unzip extracted and its exit code,
                    \* whether the remove went through
  npmCodes,         \* the exit codes of the npm commands of this invocation
  materializer,     \* "none" | "Local" | "Remote": the one that was started
  fsAtStart,        \* the file system when this invocation started
  prev,             \* the invocation before this one, summarised
  tasks,            \* the file-by-file engine: where the copy of each template file stands
  options,          \* the options as the caller gave them
  cliArgs,          \* Deno.args when the engine runs as the command, <<>> otherwise
  pending,          \* the scripts: the directory entries a readDir loop has yet to yield
  manifestContent,  \* the scripts: the text of the manifest read
  filesToInclude,   \* the scripts: the manifest's lines as parsed
  wt                \* the tests: a call of withTimeout, its promises and its timer

\* what only the callers of the engine and the scripts change
shell == <<options, cliArgs, pending, manifestContent, filesToInclude, wt>>

vars == <<fs, pc, runs, moduleUrl, targetDirectory, opts, outcome, error,
          httpStatus, zipData, ops, env, npmCodes, materializer, fsAtStart,
          prev, tasks, shell>>

defaultOptions == [build |-> FALSE, template |-> <<"server">>]

\* the spread the other way round: { ...options, ...defaultOptions }
MergeOptionsDefaultsWin(d, o) ==
  [k \in DOMAIN d \cup DOMAIN o |-> IF k \in DOMAIN d THEN d[k] ELSE o[k]]

\* { ...defaultOptions, ...options }
MergeOptions(d, o) ==
  [k \in DOMAIN d \cup DOMAIN o |-> IF k \in DOMAIN o THEN o[k] ELSE d[k]]

\* the arguments a caller may give
TemplateNames == {<<"server">>, <<"cli">>, <<"ghost">>}
OptionsGiven ==
  {MergeOptions([k \in {} |-> FALSE], o) : o \in
     {[k \in {} |-> FALSE]} \cup [build : BOOLEAN] \cup [template : TemplateNames]
     \cup [build : BOOLEAN, template : TemplateNames]}
TargetArguments ==
  { <<SLASH, "tmp", SLASH, "a">>,         \* does not exist
    <<"e">>,                              \* an empty directory
    <<SLASH, "tmp", SLASH, "n">>,         \* a directory holding stale.txt
    <<"f">>,                              \* a regular file
    <<"new", SLASH, ".", SLASH, "x">>,    \* does not exist, nor does its parent
    <<"f", SLASH, "x">> }                 \* below a regular file
ModuleUrls ==
  { <<"file", "://", SLASH, "app", SLASH, "mod.ts">>,
    <<"http", "://", "host", SLASH, "pkg", SLASH, "mod.ts">>,
    <<"https", "://", "host", SLASH, "pkg", SLASH, "mod.ts">> }

\* new URL(href).pathname: what follows the scheme and the host
Pathname(href) ==
  LET first == CHOOSE i \in 3..Len(href) :
                 href[i] = SLASH /\ \A j \in 3..(i - 1) : href[j] # SLASH
  IN SubSeq(href, first, Len(href))

\* import.meta.url.startsWith('file://')
StartsWithFile(href) == Len(href) >= 2 /\ href[1] = "file" /\ href[2] = "://"

\* the three outcomes of an invocation that has ended
Finished == pc = "idle" /\ outcome # "none"

\* the state of the target when the invocation started
KindAt(f, t) ==
  IF BlockedByFile(f, t) THEN "blocked"
  ELSE IF ~Exists(f, t) THEN "absent"
  ELSE IF ~IsDir(f, t) THEN "file"
  ELSE IF Children(f, t) = {} THEN "empty" ELSE "nonempty"

NoPrev ==
  [valid |-> FALSE, target |-> <<>>, opts |-> defaultOptions, local |-> FALSE,
   kind |-> "absent", outcome |-> "none", error |-> "none", env |-> <<>>,
   npmCodes |-> <<>>,
   tree |-> Subtree(PublishedFS, P(<<"tmp", "e">>))]

Summary ==
  [valid |-> TRUE, target |-> targetDirectory, opts |-> opts,
   local |-> StartsWithFile(moduleUrl), kind |-> KindAt(fsAtStart, targetDirectory),
   outcome |-> outcome, error |-> error, env |-> env, npmCodes |-> npmCodes,
   tree |-> Subtree(fs, targetDirectory)]

\* withTimeout has not been called
NoCall ==
  [stage |-> "uncalled", promise |-> <<"pending">>, timeoutMs |-> 0, now |-> 0,
   timeout |-> "none", micro |-> <<>>, returned |-> <<"pending">>,
   cleanups |-> 0, settlements |-> 0, log |-> <<>>]

Init ==
  /\ fs = PublishedFS
  /\ pc = "idle"
  /\ runs = 0
  /\ moduleUrl = <<"file", "://", SLASH, "app", SLASH, "mod.ts">>
  /\ targetDirectory = <<>>
  /\ opts = defaultOptions
  /\ outcome = "none"
  /\ error = "none"
  /\ httpStatus = 0
  /\ zipData = <<>>
  /\ ops = <<>>
  /\ env = <<>>
  /\ npmCodes = <<>>
  /\ materializer = "none"
  /\ fsAtStart = PublishedFS
  /\ prev = NoPrev
  /\ tasks = <<>>
  /\ options = [k \in {} |-> FALSE]
  /\ cliArgs = <<>>
  /\ pending = {}
  /\ manifestContent = <<>>
  /\ filesToInclude = <<>>
  /\ wt = NoCall

\* the invocation ends: by returning, by Deno.exit(1) or by a rejected promise
End(how, err) ==
  /\ pc' = "idle"
  /\ outcome' = how
  /\ error' = err

Goto(next) ==
  /\ pc' = next
  /\ UNCHANGED <<outcome, error>>

\* the materializer entered without the validation
EntryStepUnvalidated == "local_mkdir"

\* the first await of createPurescriptDenoProject: validateTargetDirectory
EntryStep == "validate"

\* createPurescriptDenoProject(targetDirectory, given), up to its first await
Call(target, given, url) ==
  /\ pc = "idle"
  /\ moduleUrl' = url
  /\ options' = given
  /\ opts' = MergeOptions(defaultOptions, given)
  /\ targetDirectory' = resolve(Cwd, target)
  /\ pc' = EntryStep
  /\ outcome' = "running"
  /\ error' = "none"
  /\ httpStatus' = 0
  /\ zipData' = <<>>
  /\ ops' = <<>>
  /\ env' = <<>>
  /\ npmCodes' = <<>>
  /\ materializer' = "none"
  /\ fsAtStart' = fs
  /\ prev' = IF runs = 0 THEN NoPrev ELSE Summary
  /\ UNCHANGED <<fs, tasks, pending, manifestContent, filesToInclude, wt>>

\* the engine called as a library, as the tests call it
Invoke(target, given, url) ==
  /\ runs < MaxRuns
  /\ runs' = runs + 1
  /\ cliArgs' = <<>>
  /\ Call(target, given, url)

\* validateTargetDirectory without the readDir loop
validateTargetDirectoryNoReadDir(f, t) ==
  IF BlockedByFile(f, t) THEN "throw"
  ELSE IF ~Exists(f, t) THEN "pass"
  ELSE IF IsDir(f, t) THEN "pass"
  ELSE "TargetNotDirectory"

\* validateTargetDirectory without the else branch of stat.isDirectory
validateTargetDirectoryNoElse(f, t) ==
  IF BlockedByFile(f, t) THEN "throw"
  ELSE IF ~Exists(f, t) THEN "pass"
  ELSE IF IsDir(f, t)
       THEN IF Children(f, t) # {} THEN "TargetNotEmpty" ELSE "pass"
  ELSE "pass"

\* validateTargetDirectory: what it decides for target t on file system f
validateTargetDirectory(f, t) ==
  IF BlockedByFile(f, t) THEN "throw"            \* stat fails, not with NotFound
  ELSE IF ~Exists(f, t) THEN "pass"              \* NotFound: okay
  ELSE IF IsDir(f, t)
       THEN IF Children(f, t) # {} THEN "TargetNotEmpty" ELSE "pass"
  ELSE "TargetNotDirectory"

\* the choice made on http:// instead of file://
SelectMaterializerByHttp(href) ==
  IF Len(href) >= 2 /\ href[1] = "http" /\ href[2] = "://" THEN "Remote" ELSE "Local"

\* the materializer createPurescriptDenoProject calls
SelectMaterializer(href) == IF StartsWithFile(href) THEN "Local" ELSE "Remote"

Validate ==
  /\ pc = "validate"
  /\ LET verdict == validateTargetDirectory(fs, targetDirectory)
     IN /\ ops' = ops \o (IF IsDir(fs, targetDirectory) /\ verdict # "throw"
                          THEN <<"stat", "readDir">> ELSE <<"stat">>)
        /\ CASE verdict = "pass" ->
                  /\ materializer' = SelectMaterializer(moduleUrl)
                  /\ Goto(IF materializer' = "Local" THEN "local_mkdir" ELSE "fetch")
             [] verdict = "throw" ->
                  /\ End("rejected", "NotADirectory")
                  /\ UNCHANGED materializer
             [] OTHER ->
                  /\ End("exit", verdict)
                  /\ UNCHANGED materializer
  /\ UNCHANGED <<fs, runs, moduleUrl, targetDirectory, opts, httpStatus, zipData,
                 env, npmCodes, fsAtStart, prev, tasks, shell>>

\* `${templateName}.zip` below the target
TempZipPath == join(targetDirectory, opts.template \o <<".zip">>)

\* copyAndUnzipTemplate: Deno.mkdir(targetDirectory, { recursive: true })
LocalMkdir ==
  /\ pc = "local_mkdir"
  /\ ops' = Append(ops, "mkdir")
  /\ IF CanMkdirP(fs, targetDirectory)
     THEN fs' = MkdirP(fs, targetDirectory) /\ Goto("local_copy")
     ELSE UNCHANGED fs /\ End("rejected", "MkdirFailed")
  /\ UNCHANGED <<runs, moduleUrl, targetDirectory, opts, httpStatus, zipData,
                 env, npmCodes, materializer, fsAtStart, prev, tasks, shell>>

\* the packaged archive beside the engine's own module
TemplateZipPath ==
  join(dirname(NormalizeSegs(Split(Pathname(moduleUrl), SLASH))),
       <<"templates", SLASH>> \o opts.template \o <<".zip">>)

\* copyAndUnzipTemplate falling back to the download when the copy fails
LocalCopyZipWithFallback ==
  /\ pc = "local_copy"
  /\ ops' = Append(ops, "copyFile")
  /\ IF IsFile(fs, TemplateZipPath) /\ CanWrite(fs, TempZipPath)
     THEN fs' = Put(fs, TempZipPath, fs[TemplateZipPath]) /\ Goto("unzip")
     ELSE UNCHANGED fs /\ Goto("fetch")
  /\ UNCHANGED <<runs, moduleUrl, targetDirectory, opts, httpStatus, zipData,
                 env, npmCodes, materializer, fsAtStart, prev, tasks, shell>>

\* a copy that creates its destination before it opens its source
LocalCopyZipLeavingStub ==
  /\ pc = "local_copy"
  /\ ops' = Append(ops, "copyFile")
  /\ IF IsFile(fs, TemplateZipPath) /\ CanWrite(fs, TempZipPath)
     THEN fs' = Put(fs, TempZipPath, fs[TemplateZipPath]) /\ Goto("unzip")
     ELSE /\ fs' = IF CanWrite(fs, TempZipPath)
                   THEN Put(fs, TempZipPath, FileNode(<<>>)) ELSE fs
          /\ End("rejected", "CopyFailed")
  /\ UNCHANGED <<runs, moduleUrl, targetDirectory, opts, httpStatus, zipData,
                 env, npmCodes, materializer, fsAtStart, prev, tasks, shell>>

\* what Deno.copyFile leaves at the destination: the source's content, or,
\* when the destination is the source itself, possibly a file truncated to
\* nothing (the destination is opened for writing before the source is read)
Copied ==
  IF TempZipPath = TemplateZipPath
  THEN {fs[TemplateZipPath], FileNode(<<>>)}
  ELSE {fs[TemplateZipPath]}

\* copyAndUnzipTemplate: Deno.copyFile(templateZipPath, destZipPath)
LocalCopyZip ==
  /\ pc = "local_copy"
  /\ ops' = Append(ops, "copyFile")
  /\ IF IsFile(fs, TemplateZipPath) /\ CanWrite(fs, TempZipPath)
     THEN (\E node \in Copied : fs' = Put(fs, TempZipPath, node)) /\ Goto("unzip")
     ELSE UNCHANGED fs /\ End("rejected", "CopyFailed")
  /\ UNCHANGED <<runs, moduleUrl, targetDirectory, opts, httpStatus, zipData,
                 env, npmCodes, materializer, fsAtStart, prev, tasks, shell>>

\* the archive URL with a fixed name in place of the template's
ArchiveUrlPathFixedName ==
  LET parts == Split(Pathname(moduleUrl), SLASH)
      rootPath == JoinWith(SubSeq(parts, 1, Len(parts) - 1), SLASH)
  IN NormalizeSegs(Split(rootPath \o <<SLASH, "templates", SLASH>>
                         \o <<"server">> \o <<".zip">>, SLASH))

\* the archive URL with the last segment of the module's path kept
ArchiveUrlPathKeepingLast ==
  LET parts == Split(Pathname(moduleUrl), SLASH)
      rootPath == JoinWith(parts, SLASH)
  IN NormalizeSegs(Split(rootPath \o <<SLASH, "templates", SLASH>>
                         \o opts.template \o <<".zip">>, SLASH))

\* the URL downloadAndUnzipTemplate fetches, by the segments of its path
ArchiveUrlPath ==
  LET parts == Split(Pathname(moduleUrl), SLASH)
      rootPath == JoinWith(SubSeq(parts, 1, Len(parts) - 1), SLASH)
  IN NormalizeSegs(Split(rootPath \o <<SLASH, "templates", SLASH>>
                         \o opts.template \o <<".zip">>, SLASH))

\* new URL(import.meta.url) with its pathname assigned: the scheme and the
\* host stay, the path is parsed anew (dot segments are resolved)
ArchiveUrl ==
  LET first == CHOOSE i \in 3..Len(moduleUrl) :
                 moduleUrl[i] = SLASH /\ \A j \in 3..(i - 1) : moduleUrl[j] # SLASH
  IN [origin |-> SubSeq(moduleUrl, 1, first - 1), path |-> ArchiveUrlPath]

\* the statuses the server may answer with; 0 stands for a fetch that throws
Statuses == {0, 200, 404, 500}
\* only a server error taken for a failed download
ResponseOkBelow500(status) == status < 500
\* resp.ok
ResponseOk(status) == status >= 200 /\ status <= 299

\* the target directory made before the download, as copyAndUnzipTemplate
\* makes it before the copy
FetchAfterMkdir ==
  /\ pc = "fetch"
  /\ ops' = Append(ops, "fetch")
  /\ fs' = IF CanMkdirP(fs, targetDirectory) THEN MkdirP(fs, targetDirectory) ELSE fs
  /\ \E status \in Statuses :
       /\ status = 200 => Served(ArchiveUrlPath) # <<>>
       /\ status = 404 => Served(ArchiveUrlPath) = <<>>
       /\ httpStatus' = status
       /\ env' = Append(env, status)
       /\ IF status = 0
          THEN End("rejected", "NetworkError") /\ UNCHANGED zipData
          ELSE IF ~ResponseOk(status)
          THEN End("exit", "DownloadFailed") /\ UNCHANGED zipData
          ELSE zipData' = Served(ArchiveUrlPath) /\ Goto("remote_mkdir")
  /\ UNCHANGED <<runs, moduleUrl, targetDirectory, opts, npmCodes,
                 materializer, fsAtStart, prev, tasks, shell>>

\* downloadAndUnzipTemplate: fetch(url) and the check of resp.ok
Fetch ==
  /\ pc = "fetch"
  /\ ops' = Append(ops, "fetch")
  /\ \E status \in Statuses :
       /\ status = 200 => Served(ArchiveUrlPath) # <<>>
       /\ status = 404 => Served(ArchiveUrlPath) = <<>>
       /\ httpStatus' = status
       /\ env' = Append(env, status)
       /\ IF status = 0
          THEN End("rejected", "NetworkError") /\ UNCHANGED zipData
          ELSE IF ~ResponseOk(status)
          THEN End("exit", "DownloadFailed") /\ UNCHANGED zipData
          ELSE zipData' = Served(ArchiveUrlPath) /\ Goto("remote_mkdir")
  /\ UNCHANGED <<fs, runs, moduleUrl, targetDirectory, opts, npmCodes,
                 materializer, fsAtStart, prev, tasks, shell>>

\* downloadAndUnzipTemplate: Deno.mkdir(targetDirectory, { recursive: true })
RemoteMkdir ==
  /\ pc = "remote_mkdir"
  /\ ops' = Append(ops, "mkdir")
  /\ IF CanMkdirP(fs, targetDirectory)
     THEN fs' = MkdirP(fs, targetDirectory) /\ Goto("remote_write")
     ELSE UNCHANGED fs /\ End("rejected", "MkdirFailed")
  /\ UNCHANGED <<runs, moduleUrl, targetDirectory, opts, httpStatus, zipData,
                 env, npmCodes, materializer, fsAtStart, prev, tasks, shell>>

\* the archive written and removed again with the extraction left out
RemoteWriteZipThenRemove ==
  /\ pc = "remote_write"
  /\ ops' = Append(ops, "writeFile")
  /\ IF CanWrite(fs, TempZipPath)
     THEN fs' = Put(fs, TempZipPath, zipData[1]) /\ Goto("remove")
     ELSE UNCHANGED fs /\ End("rejected", "WriteFailed")
  /\ UNCHANGED <<runs, moduleUrl, targetDirectory, opts, httpStatus, zipData,
                 env, npmCodes, materializer, fsAtStart, prev, tasks, shell>>

\* downloadAndUnzipTemplate: Deno.writeFile(tempZipPath, zipData)
RemoteWriteZip ==
  /\ pc = "remote_write"
  /\ ops' = Append(ops, "writeFile")
  /\ IF CanWrite(fs, TempZipPath)
     THEN fs' = Put(fs, TempZipPath, zipData[1]) /\ Goto("unzip")
     ELSE UNCHANGED fs /\ End("rejected", "WriteFailed")
  /\ UNCHANGED <<runs, moduleUrl, targetDirectory, opts, httpStatus, zipData,
                 env, npmCodes, materializer, fsAtStart, prev, tasks, shell>>

\* `unzip -o zipPath -d destDir` having extracted the entries es, in order:
\* parents are created, existing files overwritten
Extract(f, destDir, es) ==
  LET RECURSIVE go(_, _)
      go(g, i) ==
        IF i > Len(es) THEN g
        ELSE LET p == join(destDir, es[i].path)
             IN go(IF es[i].kind = "dir" THEN MkdirP(g, p)
                   ELSE Put(MkdirP(g, dirname(p)), p, FileNode(es[i].bytes)),
                   i + 1)
  IN go(f, 1)

\* unzipFile not looking at the exit code
UnzipFailedIgnored(code) == FALSE

\* unzipFile: `if (code !== 0) exitWithError(...)`
UnzipFailed(code) == code # 0

\* unzipFile undoing what the invocation wrote when the extraction fails
UnzipRollingBack ==
  /\ pc = "unzip"
  /\ ops' = Append(ops, "unzip")
  /\ LET es == fs[TempZipPath].entries
     IN \E n \in 0..Len(es), code \in {0, 1} :
          /\ n < Len(es) => code # 0
          /\ fs' = IF UnzipFailed(code) THEN fsAtStart
                   ELSE Extract(fs, targetDirectory, SubSeq(es, 1, n))
          /\ env' = env \o <<n, code>>
          /\ IF UnzipFailed(code) THEN End("exit", "UnzipFailed") ELSE Goto("remove")
  /\ UNCHANGED <<runs, moduleUrl, targetDirectory, opts, httpStatus, zipData,
                 npmCodes, materializer, fsAtStart, prev, tasks, shell>>

\* unzipFile(zipPath, destDir): the command extracts the first n entries and
\* ends with an exit code, which is not 0 when an entry was not extracted or
\* the file is no archive
Unzip ==
  /\ pc = "unzip"
  /\ ops' = Append(ops, "unzip")
  /\ LET es == fs[TempZipPath].entries
     IN \E n \in 0..Len(es), code \in {0, 1} :
          /\ n < Len(es) => code # 0
          /\ fs[TempZipPath].bytes = <<>> => code # 0
          /\ fs' = Extract(fs, targetDirectory, SubSeq(es, 1, n))
          /\ env' = env \o <<n, code>>
          /\ IF UnzipFailed(code) THEN End("exit", "UnzipFailed") ELSE Goto("remove")
  /\ UNCHANGED <<runs, moduleUrl, targetDirectory, opts, httpStatus, zipData,
                 npmCodes, materializer, fsAtStart, prev, tasks, shell>>

\* the build run whatever opts.build says
AfterMaterializeAlways == "install"

\* where createPurescriptDenoProject goes on after the materializer
AfterMaterialize == IF opts.build THEN "install" ELSE "return"

\* Deno.remove(tempZipPath): it removes the archive, or throws
RemoveZip ==
  /\ pc = "remove"
  /\ ops' = Append(ops, "remove")
  /\ \/ /\ fs' = Remove(fs, TempZipPath)
        /\ env' = Append(env, 1)
        /\ IF AfterMaterialize = "return" THEN End("ok", "none")
           ELSE Goto(AfterMaterialize)
     \/ /\ UNCHANGED fs
        /\ env' = Append(env, 0)
        /\ End("rejected", "RemoveFailed")
  /\ UNCHANGED <<runs, moduleUrl, targetDirectory, opts, httpStatus, zipData,
                 npmCodes, materializer, fsAtStart, prev, tasks, shell>>

\* what a successful npm command leaves in its working directory
NpmCreates(cmd) == IF cmd = "npm install" THEN <<"node_modules">> ELSE <<"output">>

RunNpm(cmd, code) ==
  /\ ops' = Append(ops, cmd)
  /\ npmCodes' = Append(npmCodes, code)
  /\ fs' = IF code = 0 /\ CanMkdirP(fs, join(targetDirectory, NpmCreates(cmd)))
           THEN MkdirP(fs, join(targetDirectory, NpmCreates(cmd))) ELSE fs

\* await installCommand.output(): the exit code is not looked at
NpmInstall ==
  /\ pc = "install"
  /\ \E code \in {0, 1} : RunNpm("npm install", code)
  /\ Goto("build")
  /\ UNCHANGED <<runs, moduleUrl, targetDirectory, opts, httpStatus, zipData,
                 env, materializer, fsAtStart, prev, tasks, shell>>

\* the build command with its exit code looked at
NpmBuildChecked ==
  /\ pc = "build"
  /\ \E code \in {0, 1} :
       /\ RunNpm("npm run build", code)
       /\ IF code = 0 THEN End("ok", "none") ELSE End("exit", "BuildFailed")
  /\ UNCHANGED <<runs, moduleUrl, targetDirectory, opts, httpStatus, zipData,
                 env, materializer, fsAtStart, prev, tasks, shell>>

\* await buildCommand.output(): the exit code is not looked at
NpmBuild ==
  /\ pc = "build"
  /\ \E code \in {0, 1} : RunNpm("npm run build", code)
  /\ End("ok", "none")
  /\ UNCHANGED <<runs, moduleUrl, targetDirectory, opts, httpStatus, zipData,
                 env, materializer, fsAtStart, prev, tasks, shell>>

Next ==
  \/ \E target \in TargetArguments, given \in OptionsGiven, url \in ModuleUrls :
       Invoke(target, given, url)
  \/ Validate
  \/ LocalMkdir
  \/ LocalCopyZip
  \/ Fetch
  \/ RemoteMkdir
  \/ RemoteWriteZip
  \/ Unzip
  \/ RemoveZip
  \/ NpmInstall
  \/ NpmBuild

Spec == Init /\ [][Next]_vars

(***************************************************************************)
(* The engine called with any string as the template option: neither       *)
(* validateArgs nor createPurescriptDenoProject looks at its value.        *)
(***************************************************************************)
\* invocations with arbitrary template names in one behaviour
MaxRunsNames == 1

TemplateNamesAny ==
  TemplateNames \cup
    { <<"..", SLASH, "templates", SLASH, "server">>,
      <<"..", SLASH, "evil">>,
      <<"..", SLASH, "..", SLASH, "app", SLASH, "templates", SLASH, "server">>,
      <<"x", SLASH, "..", SLASH, "cli">> }
OptionsGivenAny ==
  {[k \in {} |-> FALSE]} \cup [build : BOOLEAN, template : TemplateNamesAny]
ModuleUrlsAny ==
  ModuleUrls \cup
    { <<"http", "://", "localhost:8765", SLASH, "mod.ts">>,
      <<"https", "://", "host", SLASH, "pkg", SLASH, "v1", SLASH, "mod.ts">> }

InvokeNames(target, given, url) ==
  /\ runs < MaxRunsNames
  /\ runs' = runs + 1
  /\ cliArgs' = <<>>
  /\ Call(target, given, url)

NextNames ==
  \/ \E target \in TargetArguments, given \in OptionsGivenAny, url \in ModuleUrlsAny :
       InvokeNames(target, given, url)
  \/ Validate
  \/ LocalMkdir
  \/ LocalCopyZip
  \/ Fetch
  \/ RemoteMkdir
  \/ RemoteWriteZip
  \/ Unzip
  \/ RemoveZip
  \/ NpmInstall
  \/ NpmBuild

SpecNames == Init /\ [][NextNames]_vars

(***************************************************************************)
(* The file-by-file engine (the create-purescript-deno-project.ts that     *)
(* copies or downloads the files of templateFiles one by one, all at       *)
(* once).  It shares the state of the engine above; tasks[i] says where    *)
(* the async function of templateFiles[i] stands.                          *)
(***************************************************************************)
\* invocations of the file-by-file engine in one behaviour
MaxRunsFiles == 1

\* a list with src/Main.ts beside src/Main.ts.template
templateFilesClashing ==
  << <<"src", SLASH, "Main.ts">>,
     <<"src", SLASH, "Main.ts", ".template">>,
     <<"test", SLASH, "Test", SLASH, "Main.purs">>,
     <<".gitignore", ".template">>,
     <<"package.json">>,
     <<"serve.ts", ".template">>,
     <<"spago.yaml">>,
     <<"tsconfig.json">> >>

templateFiles ==
  << <<"src", SLASH, "Main.purs">>,
     <<"src", SLASH, "Main.ts", ".template">>,
     <<"test", SLASH, "Test", SLASH, "Main.purs">>,
     <<".gitignore", ".template">>,
     <<"package.json">>,
     <<"serve.ts", ".template">>,
     <<"spago.yaml">>,
     <<"tsconfig.json">> >>

\* the file path as it is
destinationPathUnstripped(filePath) == filePath

\* destinationPath: a trailing .template is removed
destinationPath(filePath) ==
  IF EndsWith(filePath, ".template")
  THEN SubSeq(filePath, 1, Len(filePath) - 1)
  ELSE filePath

\* the repository of the file-by-file engine: its template directory
TemplateDirFiles ==
  <<
    <<P(<<"app">>), DirNode>>,
    <<P(<<"app", "mod.ts">>), FileNode(<<"engine">>)>>,
    <<P(<<"app", "template">>), DirNode>>,
    <<P(<<"app", "template", "src">>), DirNode>>,
    <<P(<<"app", "template", "test">>), DirNode>>,
    <<P(<<"app", "template", "test", "Test">>), DirNode>>
  >>

RepositoryFS ==
  LET base == FromList(TemplateDirFiles \o TargetFiles)
      dir == join(PackageRoot, <<"template">>)
      RECURSIVE go(_, _)
      go(g, i) == IF i > Len(templateFiles) THEN g
                  ELSE go(Put(g, join(dir, templateFiles[i]),
                              FileNode(<<"content of">> \o templateFiles[i])),
                          i + 1)
  IN go(base, 1)

\* what the http server answers for a URL path: the repository below /pkg
ServedFile(urlPath) ==
  IF Len(urlPath) >= 1 /\ urlPath[1] = <<"pkg">>
     /\ IsFile(RepositoryFS, PackageRoot \o Tail(urlPath))
  THEN <<RepositoryFS[PackageRoot \o Tail(urlPath)]>>
  ELSE <<>>

\* await resp.text() written back by Deno.writeTextFile: the body decoded as
\* UTF-8 (a leading byte order mark is dropped, an invalid byte becomes
\* U+FFFD) and encoded again
TextRoundTrip(bytes) ==
  LET noBom == IF bytes # <<>> /\ bytes[1] = "BOM" THEN Tail(bytes) ELSE bytes
  IN [i \in 1..Len(noBom) |-> IF noBom[i] = "0xFF" THEN "U+FFFD" ELSE noBom[i]]

TargetArgumentsFiles ==
  { <<SLASH, "tmp", SLASH, "a">>, <<"e">>, <<SLASH, "tmp", SLASH, "n">>, <<"f">> }
ModuleUrlsFiles ==
  { <<"file", "://", SLASH, "app", SLASH, "mod.ts">>,
    <<"https", "://", "host", SLASH, "pkg", SLASH, "mod.ts">> }

\* srcPath and destPath of templateFiles[i]
SrcPath(i) ==
  join(join(dirname(NormalizeSegs(Split(Pathname(moduleUrl), SLASH))), <<"template">>),
       templateFiles[i])
DestPath(i) == join(targetDirectory, destinationPath(templateFiles[i]))

\* srcURL of templateFiles[i], by the segments of its path
SrcUrlPath(i) ==
  LET parts == Split(Pathname(moduleUrl), SLASH)
      rootPath == JoinWith(SubSeq(parts, 1, Len(parts) - 1), SLASH)
  IN NormalizeSegs(Split(rootPath \o <<SLASH, "template">> \o <<SLASH>>
                         \o templateFiles[i], SLASH))

InitFiles ==
  /\ fs = RepositoryFS
  /\ pc = "idle"
  /\ runs = 0
  /\ moduleUrl = <<"file", "://", SLASH, "app", SLASH, "mod.ts">>
  /\ targetDirectory = <<>>
  /\ opts = defaultOptions
  /\ outcome = "none"
  /\ error = "none"
  /\ httpStatus = 0
  /\ zipData = <<>>
  /\ ops = <<>>
  /\ env = <<>>
  /\ npmCodes = <<>>
  /\ materializer = "none"
  /\ fsAtStart = RepositoryFS
  /\ prev = NoPrev
  /\ tasks = <<>>
  /\ options = [k \in {} |-> FALSE]
  /\ cliArgs = <<>>
  /\ pending = {}
  /\ manifestContent = <<>>
  /\ filesToInclude = <<>>
  /\ wt = NoCall

\* createPurescriptDenoProject(targetDirectory), up to its first await
InvokeFiles(target, url) ==
  /\ pc = "idle"
  /\ runs < MaxRunsFiles
  /\ runs' = runs + 1
  /\ moduleUrl' = url
  /\ targetDirectory' = resolve(Cwd, target)
  /\ pc' = "validate"
  /\ outcome' = "running"
  /\ error' = "none"
  /\ materializer' = "none"
  /\ fsAtStart' = fs
  /\ tasks' = <<>>
  /\ UNCHANGED <<fs, opts, httpStatus, zipData, ops, env, npmCodes, prev, shell>>

\* await validateTargetDirectory, then Promise.all(templateFiles.map(...)):
\* every async function runs up to its first await, the Deno.mkdir
ValidateFiles ==
  /\ pc = "validate"
  /\ LET verdict == validateTargetDirectory(fs, targetDirectory)
     IN /\ ops' = ops \o (IF IsDir(fs, targetDirectory) /\ verdict # "throw"
                          THEN <<"stat", "readDir">> ELSE <<"stat">>)
        /\ CASE verdict = "pass" ->
                  /\ materializer' = SelectMaterializer(moduleUrl)
                  /\ tasks' = [i \in 1..Len(templateFiles) |-> "mkdir"]
                  /\ Goto("materialize")
             [] verdict = "throw" ->
                  /\ End("rejected", "NotADirectory")
                  /\ UNCHANGED <<materializer, tasks>>
             [] OTHER ->
                  /\ End("exit", verdict)
                  /\ UNCHANGED <<materializer, tasks>>
  /\ UNCHANGED <<fs, runs, moduleUrl, targetDirectory, opts, httpStatus, zipData,
                 env, npmCodes, fsAtStart, prev, shell>>

\* Promise.any in its place: the first async function that returns resolves it
SettleAny(newTasks) ==
  IF pc = "materialize" /\ \E i \in DOMAIN newTasks : newTasks[i] = "done"
  THEN End("ok", "none") ELSE UNCHANGED <<pc, outcome, error>>

\* Promise.all resolves when the last async function has returned
SettleAll(newTasks) ==
  IF \A i \in DOMAIN newTasks : newTasks[i] = "done"
  THEN End("ok", "none") ELSE UNCHANGED <<pc, outcome, error>>

\* Promise.all rejects with the first rejection and cancels nothing: the
\* other async functions go on as long as the process lives, and what they
\* throw later is dropped.  The copies are followed that far; the downloads
\* are followed up to the rejection, with which the command's process ends
FollowedAfterRejection == {"Local"}
InFlight ==
  \/ pc = "materialize"
  \/ /\ pc = "idle" /\ outcome = "rejected" /\ tasks # <<>>
     /\ materializer \in FollowedAfterRejection
RejectAll(err) ==
  IF pc = "materialize" THEN End("rejected", err) ELSE UNCHANGED <<pc, outcome, error>>

\* await Deno.mkdir(destDir, { recursive: true }) of file i, in either
\* materializer
TaskMkdir(i) ==
  /\ InFlight
  /\ tasks[i] = "mkdir"
  /\ IF CanMkdirP(fs, dirname(DestPath(i)))
     THEN /\ fs' = MkdirP(fs, dirname(DestPath(i)))
          /\ tasks' = [tasks EXCEPT ![i] = IF materializer = "Local" THEN "copy"
                                           ELSE "fetch"]
          /\ UNCHANGED <<pc, outcome, error>>
     ELSE /\ UNCHANGED fs
          /\ tasks' = [tasks EXCEPT ![i] = "failed"]
          /\ RejectAll("MkdirFailed")
  /\ UNCHANGED <<runs, moduleUrl, targetDirectory, opts, httpStatus, zipData, ops,
                 env, npmCodes, materializer, fsAtStart, prev, shell>>

\* copyTemplateFiles: await Deno.copyFile(srcPath, destPath) of file i; the
\* operating system may refuse a copy that could be made
TaskCopy(i) ==
  /\ InFlight
  /\ tasks[i] = "copy"
  /\ \E granted \in BOOLEAN :
       IF granted /\ IsFile(fs, SrcPath(i)) /\ CanWrite(fs, DestPath(i))
       THEN /\ fs' = Put(fs, DestPath(i), fs[SrcPath(i)])
            /\ tasks' = [tasks EXCEPT ![i] = "done"]
            /\ SettleAll(tasks')
       ELSE /\ UNCHANGED fs
            /\ tasks' = [tasks EXCEPT ![i] = "failed"]
            /\ RejectAll("CopyFailed")
  /\ UNCHANGED <<runs, moduleUrl, targetDirectory, opts, httpStatus, zipData, ops,
                 env, npmCodes, materializer, fsAtStart, prev, shell>>

\* downloadTemplateFiles: await fetch(srcURL) of file i and the check of
\* resp.ok
TaskFetch(i) ==
  /\ InFlight
  /\ tasks[i] = "fetch"
  /\ \E status \in Statuses :
       /\ status = 200 => ServedFile(SrcUrlPath(i)) # <<>>
       /\ status = 404 => ServedFile(SrcUrlPath(i)) = <<>>
       /\ httpStatus' = status
       /\ IF status = 0
          THEN /\ tasks' = [tasks EXCEPT ![i] = "failed"]
               /\ RejectAll("NetworkError")
          ELSE IF ~ResponseOk(status)
          THEN /\ tasks' = [tasks EXCEPT ![i] = "failed"]
               /\ End("exit", "DownloadFailed")
          ELSE /\ tasks' = [tasks EXCEPT ![i] = "write"]
               /\ UNCHANGED <<pc, outcome, error>>
  /\ UNCHANGED <<fs, runs, moduleUrl, targetDirectory, opts, zipData, ops, env,
                 npmCodes, materializer, fsAtStart, prev, shell>>

\* downloadTemplateFiles: await Deno.writeTextFile(destPath, await resp.text())
TaskWrite(i) ==
  /\ InFlight
  /\ tasks[i] = "write"
  /\ IF CanWrite(fs, DestPath(i))
     THEN /\ fs' = Put(fs, DestPath(i),
                       FileNode(TextRoundTrip(ServedFile(SrcUrlPath(i))[1].bytes)))
          /\ tasks' = [tasks EXCEPT ![i] = "done"]
          /\ SettleAll(tasks')
     ELSE /\ UNCHANGED fs
          /\ tasks' = [tasks EXCEPT ![i] = "failed"]
          /\ RejectAll("WriteFailed")
  /\ UNCHANGED <<runs, moduleUrl, targetDirectory, opts, httpStatus, zipData, ops,
                 env, npmCodes, materializer, fsAtStart, prev, shell>>

NextFiles ==
  \/ \E target \in TargetArgumentsFiles, url \in ModuleUrlsFiles :
       InvokeFiles(target, url)
  \/ ValidateFiles
  \/ \E i \in 1..Len(templateFiles) : TaskMkdir(i)
  \/ \E i \in 1..Len(templateFiles) : TaskCopy(i)
  \/ \E i \in 1..Len(templateFiles) : TaskFetch(i)
  \/ \E i \in 1..Len(templateFiles) : TaskWrite(i)

SpecFiles == InitFiles /\ [][NextFiles]_vars

(***************************************************************************)
(* The command (import.meta.main): parseArgs of @std/cli, validateArgs,    *)
(* then the engine.  An argument is a string of tokens: "--" and "-" are   *)
(* the dashes a flag starts with, "no-" the negation prefix, "." and "="   *)
(* the separators of a key and of its value; <<"--">> alone is the         *)
(* argument after which nothing is parsed.                                 *)
(***************************************************************************)
\* invocations of the command in one behaviour
MaxRunsCli == 1

\* the values parseArgs stores: booleans, strings, numbers, nested objects
BoolValue(b) == [t |-> "bool", v |-> IF b THEN <<"true">> ELSE <<"false">>]
StrValue(v) == [t |-> "str", v |-> v]
NumValue(v) == [t |-> "num", v |-> v]
ObjValue == [t |-> "obj", v |-> <<>>]

\* the options of the call: boolean: ['build'], string: ['template']
booleanSet == {<<"build">>}
stringSet == {<<"template">>}

\* isNumber, on the value tokens the arguments use
isNumber(v) == v \in {<<"0">>, <<"1">>}
\* isBooleanString, parseBooleanString
isBooleanString(v) == v \in {<<"true">>, <<"false">>}
parseBooleanString(v) == v # <<"false">>

\* FLAG_REGEXP: does the argument match, and its groups
IsFlag(arg) == Len(arg) >= 2 /\ arg[1] \in {"-", "--"}
IndexOf(s, tok) ==
  IF \E i \in 1..Len(s) : s[i] = tok
  THEN CHOOSE i \in 1..Len(s) : s[i] = tok /\ \A j \in 1..(i - 1) : s[j] # tok
  ELSE 0
FlagGroups(arg) ==
  LET negated == Len(arg) >= 3 /\ arg[1] = "--" /\ arg[2] = "no-"
      rest == SubSeq(arg, IF negated THEN 3 ELSE 2, Len(arg))
      eq == IndexOf(rest, "=")
      hasValue == eq > 1 /\ eq < Len(rest)
  IN [doubleDash |-> arg[1] = "--",
      negated |-> negated,
      key |-> IF hasValue THEN SubSeq(rest, 1, eq - 1) ELSE rest,
      hasValue |-> hasValue,
      value |-> IF hasValue THEN SubSeq(rest, eq + 1, Len(rest)) ELSE <<>>]

\* setNested(argv, key.split("."), value): a dotted key makes a nested
\* object under its first part; strict-mode code cannot set a property on a
\* boolean, a string or a number already stored there
setNested(argv, key, value) ==
  LET keys == Split(key, ".")
      top == keys[1]
  IN IF Len(keys) = 1
     THEN [argv EXCEPT !.obj = [k \in DOMAIN argv.obj \cup {top} |->
                                  IF k = top THEN value ELSE argv.obj[k]]]
     ELSE IF top \in DOMAIN argv.obj /\ argv.obj[top].t # "obj"
     THEN [argv EXCEPT !.threw = TRUE]
     ELSE [argv EXCEPT !.obj = [k \in DOMAIN argv.obj \cup {top} |->
                                  IF k = top THEN ObjValue ELSE argv.obj[k]]]

\* setArgument(key, value, arg, collect): a string value of a key that is
\* not declared a string becomes a number when it reads as one
setArgument(argv, key, value) ==
  setNested(argv, key,
            IF value.t = "str" /\ key \notin stringSet /\ isNumber(value.v)
            THEN NumValue(value.v) ELSE value)

\* the dotted key of a flag without the dashes; `no-` stays in the key of
\* a flag that is not negatable (short flags: those of one letter)
KeyOf(g) == IF g.negated /\ ~g.hasValue THEN <<"no-">> \o g.key ELSE g.key

\* parseArgs(Deno.args, { boolean: ['build'], string: ['template'],
\*                        default: { template: 'server' }, stopEarly: true })
parseArgs(args) ==
  LET dd == IndexOf(args, <<"--">>)
      parsedArgs == IF dd = 0 THEN args ELSE SubSeq(args, 1, dd - 1)
      notFlags == IF dd = 0 THEN <<>> ELSE SubSeq(args, dd + 1, Len(args))
      RECURSIVE loop(_, _)
      loop(i, argv) ==
        IF i > Len(parsedArgs) THEN argv
        ELSE LET arg == parsedArgs[i]
                 g == FlagGroups(arg)
                 key == KeyOf(g)
                 hasNext == i < Len(parsedArgs)
                 next == IF hasNext THEN parsedArgs[i + 1] ELSE <<>>
             IN IF ~IsFlag(arg)
                THEN \* stopEarly: the rest goes to _ unparsed
                     [argv EXCEPT !._ = argv._ \o SubSeq(parsedArgs, i, Len(parsedArgs))]
                ELSE IF g.doubleDash /\ g.hasValue
                THEN loop(i + 1,
                          setArgument(argv, g.key,
                                      IF g.key \in booleanSet
                                      THEN BoolValue(parseBooleanString(g.value))
                                      ELSE StrValue(g.value)))
                ELSE IF hasNext /\ key \notin booleanSet /\ next[1] \notin {"-", "--"}
                THEN loop(i + 2, setArgument(argv, key, StrValue(next)))
                ELSE IF hasNext /\ isBooleanString(next)
                THEN loop(i + 2, setArgument(argv, key, BoolValue(parseBooleanString(next))))
                ELSE loop(i + 1,
                          setArgument(argv, key,
                                      IF key \in stringSet THEN StrValue(<<>>)
                                      ELSE BoolValue(TRUE)))
      looped == loop(1, [_ |-> <<>>, obj |-> [k \in {} |-> ObjValue], threw |-> FALSE])
      withDefaults ==
        [k \in DOMAIN looped.obj \cup {<<"template">>, <<"build">>} |->
           IF k \in DOMAIN looped.obj THEN looped.obj[k]
           ELSE IF k = <<"template">> THEN StrValue(<<"server">>)
           ELSE BoolValue(FALSE)]
  IN [_ |-> looped._ \o notFlags, obj |-> withDefaults, threw |-> looped.threw]

\* validateArgs: the keys of args other than build, template and _ are
\* unknown arguments; more than one positional argument is too many
validateArgs(args) ==
  IF \E key \in DOMAIN args.obj : key \notin {<<"build">>, <<"template">>}
  THEN "UnknownArgument"
  ELSE IF Len(args._) > 1 THEN "TooManyArguments"
  ELSE "pass"

\* `if (opts.build)` and `${templateName}.zip` on a value parseArgs stored
Truthy(value) ==
  CASE value.t = "bool" -> value.v = <<"true">>
    [] value.t = "str" -> value.v # <<>>
    [] value.t = "num" -> value.v # <<"0">>
    [] OTHER -> TRUE
TemplateString(value) ==
  IF value.t = "obj" THEN <<"[object Object]">> ELSE value.v

\* the command lines tried
CliArguments ==
  LET a == <<SLASH, "tmp", SLASH, "a">>
  IN { <<a>>,
       <<>>,
       << <<"--", "build">>, a >>,
       << <<"--", "build", "=", "false">>, a >>,
       << <<"--", "template", "=", "cli">>, a >>,
       << <<"--", "template">>, <<"cli">>, <<"e">> >>,
       << <<"--", "template">> >>,
       << <<"--", "foo">>, a >>,
       << <<"--", "foo", "=", "1">>, a >>,
       << <<"-", "x">>, a >>,
       << <<"--", "no-", "build">>, a >>,
       << a, <<"--", "foo">> >>,
       << a, <<"e">> >>,
       << <<"--">>, <<"e">> >>,
       << <<"--", "build">>, <<"--", "build", ".", "x", "=", "1">>, a >>,
       << <<"--", "build", ".", "x", "=", "1">>, a >>,
       << <<"--", "template", ".", "x", "=", "1">>, <<"e">> >> }

\* the module run as the command, up to the first await of the engine
Main(args, url) ==
  /\ pc = "idle"
  /\ runs < MaxRunsCli
  /\ runs' = runs + 1
  /\ cliArgs' = args
  /\ LET parsed == parseArgs(args)
         verdict == IF parsed.threw THEN "TypeError" ELSE validateArgs(parsed)
     IN IF verdict = "pass"
        THEN Call(IF parsed._ # <<>> THEN parsed._[1] ELSE <<".">>,
                  [build |-> Truthy(parsed.obj[<<"build">>]),
                   template |-> TemplateString(parsed.obj[<<"template">>])],
                  url)
        ELSE /\ End(IF parsed.threw THEN "rejected" ELSE "exit", verdict)
             /\ moduleUrl' = url
             /\ options' = [k \in {} |-> FALSE]
             /\ opts' = defaultOptions
             /\ targetDirectory' = <<>>
             /\ httpStatus' = 0
             /\ zipData' = <<>>
             /\ ops' = <<>>
             /\ env' = <<>>
             /\ npmCodes' = <<>>
             /\ materializer' = "none"
             /\ fsAtStart' = fs
             /\ prev' = NoPrev
             /\ UNCHANGED <<fs, tasks, pending, manifestContent, filesToInclude, wt>>

NextCli ==
  \/ \E args \in CliArguments, url \in ModuleUrls : Main(args, url)
  \/ Validate
  \/ LocalMkdir
  \/ LocalCopyZip
  \/ Fetch
  \/ RemoteMkdir
  \/ RemoteWriteZip
  \/ Unzip
  \/ RemoveZip
  \/ NpmInstall
  \/ NpmBuild

SpecCli == Init /\ [][NextCli]_vars

(***************************************************************************)
(* scripts/publish.ts run as a command in the package directory:           *)
(* zipAllTemplates, `deno publish`, then cleanAllTemplateZips in the       *)
(* finally block.  ops logs <<command, entry name>>; error holds the code  *)
(* the finally block will exit with.                                       *)
(***************************************************************************)
\* runs of the publish script in one behaviour
MaxRunsPublish == 1

TemplatesDir == join(PackageRoot, <<"templates">>)

\* what may lie in the templates directory besides the packaged templates:
\* a template without manifest, an archive left by an earlier run, a file
ExtraFiles ==
  <<
    <<P(<<"app", "templates", "webapp">>), DirNode>>,
    <<TemplatesDir \o << <<"server", ".zip">> >>, ZipNode(<<>>)>>,
    <<P(<<"app", "templates", "notes.txt">>), FileNode(<<"notes">>)>>
  >>

\* the repositories the script may be started in
PublishRepositories ==
  {FromList(RepositoryFiles \o TargetFiles
            \o SelectSeq(ExtraFiles, LAMBDA e : e[1] \in chosen)) :
     chosen \in SUBSET {ExtraFiles[i][1] : i \in 1..Len(ExtraFiles)}}

InitPublish ==
  /\ fs \in PublishRepositories
  /\ pc = "idle"
  /\ runs = 0
  /\ moduleUrl = <<"file", "://", SLASH, "app", SLASH, "mod.ts">>
  /\ targetDirectory = <<>>
  /\ opts = defaultOptions
  /\ outcome = "none"
  /\ error = "none"
  /\ httpStatus = 0
  /\ zipData = <<>>
  /\ ops = <<>>
  /\ env = <<>>
  /\ npmCodes = <<>>
  /\ materializer = "none"
  /\ fsAtStart = fs
  /\ prev = NoPrev
  /\ tasks = <<>>
  /\ options = [k \in {} |-> FALSE]
  /\ cliArgs = <<>>
  /\ pending = {}
  /\ manifestContent = <<>>
  /\ filesToInclude = <<>>
  /\ wt = NoCall

\* the script starts: zipAllTemplates opens Deno.readDir(templates)
PublishStart ==
  /\ pc = "idle"
  /\ runs < MaxRunsPublish
  /\ runs' = runs + 1
  /\ fsAtStart' = fs
  /\ ops' = <<>>
  /\ outcome' = "running"
  /\ error' = "none"
  /\ pc' = "zip"
  /\ pending' = Children(fs, TemplatesDir)
  /\ UNCHANGED <<fs, moduleUrl, targetDirectory, opts, httpStatus, zipData, env,
                 npmCodes, materializer, prev, tasks, options, cliArgs,
                 manifestContent, filesToInclude, wt>>

\* one turn of the loop of zipAllTemplates: a directory entry is given to
\* zipSingleTemplate, which exits the process when the manifest is missing
\* or the zip command fails
ZipNextEntry(e) ==
  /\ pc = "zip"
  /\ e \in pending
  /\ pending' = pending \ {e}
  /\ IF ~IsDir(fs, e)
     THEN UNCHANGED <<fs, ops, pc, outcome, error>>
     ELSE LET name == e[Len(e)]
              zipPath == TemplatesDir \o <<name \o <<".zip">>>>
              manifestPath == join(e, <<"template.manifest">>)
              removed == IF zipPath \in DOMAIN fs THEN Remove(fs, zipPath) ELSE fs
          IN /\ ops' = Append(ops, <<"zip", name>>)
             /\ IF ~IsFile(fs, manifestPath)
                THEN fs' = removed /\ End("exit", "ManifestNotFound")
                ELSE \E code \in {0, 1} :
                       IF code = 0
                       THEN /\ fs' = zipSingleTemplate(fs, PackageRoot, name)
                            /\ UNCHANGED <<pc, outcome, error>>
                       ELSE /\ fs' = removed
                            /\ End("exit", "ZipFailed")
  /\ UNCHANGED <<fsAtStart, moduleUrl, targetDirectory, opts, httpStatus, zipData,
                 env, npmCodes, materializer, prev, tasks, options, cliArgs, runs,
                 manifestContent, filesToInclude, wt>>

\* runDenoPublish after the loop has ended: a non-zero exit code exits the
\* process there; a command that cannot be started throws into the catch
\* block, and the finally block opens Deno.readDir(templates) to clean
RunDenoPublish ==
  /\ pc = "zip"
  /\ pending = {}
  /\ \E result \in {"0", "1", "throws"} :
       /\ ops' = Append(ops, <<"deno publish", <<>>>>)
       /\ IF result = "1"
          THEN End("exit", "PublishFailed") /\ UNCHANGED pending
          ELSE /\ pc' = "clean"
               /\ error' = IF result = "0" THEN "none" ELSE "PublishThrew"
               /\ pending' = Children(fs, TemplatesDir)
               /\ UNCHANGED outcome
  /\ UNCHANGED <<fs, fsAtStart, moduleUrl, targetDirectory, opts, httpStatus,
                 zipData, env, npmCodes, materializer, prev, tasks, options,
                 cliArgs, runs, manifestContent, filesToInclude, wt>>

\* one turn of the loop of cleanAllTemplateZips
CleanNextEntry(e) ==
  /\ pc = "clean"
  /\ e \in pending
  /\ pending' = pending \ {e}
  /\ IF IsFile(fs, e) /\ EndsWith(e[Len(e)], ".zip")
     THEN fs' = Remove(fs, e) /\ ops' = Append(ops, <<"remove", e[Len(e)]>>)
     ELSE UNCHANGED <<fs, ops>>
  /\ UNCHANGED <<pc, outcome, error, fsAtStart, moduleUrl, targetDirectory, opts,
                 httpStatus, zipData, env, npmCodes, materializer, prev, tasks,
                 options, cliArgs, runs, manifestContent, filesToInclude, wt>>

\* the end of the finally block: Deno.exit(code)
CleanDone ==
  /\ pc = "clean"
  /\ pending = {}
  /\ pc' = "idle"
  /\ outcome' = IF error = "none" THEN "ok" ELSE "exit"
  /\ UNCHANGED <<fs, ops, error, pending, fsAtStart, moduleUrl, targetDirectory,
                 opts, httpStatus, zipData, env, npmCodes, materializer, prev,
                 tasks, options, cliArgs, runs, manifestContent, filesToInclude,
                 wt>>

NextPublish ==
  \/ PublishStart
  \/ \E e \in pending : ZipNextEntry(e)
  \/ RunDenoPublish
  \/ \E e \in pending : CleanNextEntry(e)
  \/ CleanDone

SpecPublish == InitPublish /\ [][NextPublish]_vars

(***************************************************************************)
(* The reading of a manifest (zipSingleTemplate of scripts/publish.ts,     *)
(* validateProjectStructure of test/utils.ts): the text of the file is     *)
(* any string over a small alphabet, and it is parsed once.                *)
(***************************************************************************)
\* the longest manifest text, in tokens
MaxManifestLen == 5

ManifestAlphabet == {"a", "b", " ", "\r", NL}
ManifestTexts == UNION {[1..n -> ManifestAlphabet] : n \in 0..MaxManifestLen}

InitManifest ==
  /\ fs = PublishedFS
  /\ pc = "idle"
  /\ runs = 0
  /\ moduleUrl = <<"file", "://", SLASH, "app", SLASH, "mod.ts">>
  /\ targetDirectory = <<>>
  /\ opts = defaultOptions
  /\ outcome = "none"
  /\ error = "none"
  /\ httpStatus = 0
  /\ zipData = <<>>
  /\ ops = <<>>
  /\ env = <<>>
  /\ npmCodes = <<>>
  /\ materializer = "none"
  /\ fsAtStart = PublishedFS
  /\ prev = NoPrev
  /\ tasks = <<>>
  /\ options = [k \in {} |-> FALSE]
  /\ cliArgs = <<>>
  /\ pending = {}
  /\ manifestContent \in ManifestTexts
  /\ filesToInclude = <<>>
  /\ wt = NoCall

\* filesToInclude = manifestContent.split('\n').map(trim).filter(non-empty)
ReadManifest ==
  /\ pc = "idle" /\ outcome = "none"
  /\ filesToInclude' = ParseManifest(manifestContent)
  /\ outcome' = "ok"
  /\ UNCHANGED <<fs, pc, runs, moduleUrl, targetDirectory, opts, error, httpStatus,
                 zipData, ops, env, npmCodes, materializer, fsAtStart, prev, tasks,
                 options, cliArgs, pending, manifestContent, wt>>

NextManifest == ReadManifest

SpecManifest == InitManifest /\ [][NextManifest]_vars

(***************************************************************************)
(* withTimeout of test/utils.ts: the promise it returns, the timer it      *)
(* sets and the reactions it registers on the wrapped promise.  A reaction *)
(* is a microtask: once queued it runs before any timer callback.  Time    *)
(* is counted in ticks; a timer fires at its due time or later.            *)
(***************************************************************************)
\* the longest timeout, in ticks
MaxTimeoutMs == 2
\* the clock stops one tick after the longest timeout
LastTick == MaxTimeoutMs + 1

Results == {"r1", "r2"}
Errors == {"e1", "e2"}
Settled == {<<"fulfilled", r>> : r \in Results} \cup {<<"rejected", e>> : e \in Errors}
TimeoutError == <<"rejected", "Operation timed out">>

\* everything but the call of withTimeout
notTimeout ==
  <<fs, pc, runs, moduleUrl, targetDirectory, opts, outcome, error, httpStatus,
    zipData, ops, env, npmCodes, materializer, fsAtStart, prev, tasks, options,
    cliArgs, pending, manifestContent, filesToInclude>>

InitTimeout ==
  /\ fs = PublishedFS
  /\ pc = "idle"
  /\ runs = 0
  /\ moduleUrl = <<"file", "://", SLASH, "app", SLASH, "mod.ts">>
  /\ targetDirectory = <<>>
  /\ opts = defaultOptions
  /\ outcome = "none"
  /\ error = "none"
  /\ httpStatus = 0
  /\ zipData = <<>>
  /\ ops = <<>>
  /\ env = <<>>
  /\ npmCodes = <<>>
  /\ materializer = "none"
  /\ fsAtStart = PublishedFS
  /\ prev = NoPrev
  /\ tasks = <<>>
  /\ options = [k \in {} |-> FALSE]
  /\ cliArgs = <<>>
  /\ pending = {}
  /\ manifestContent = <<>>
  /\ filesToInclude = <<>>
  /\ \E p \in {<<"pending">>} \cup Settled :
       wt = [NoCall EXCEPT !.promise = p]

\* resolve(value) or reject(reason) of the returned promise: the first call
\* settles it, a later one does nothing
SettleReturned(w, how) ==
  IF w.returned = <<"pending">>
  THEN [w EXCEPT !.returned = how, !.settlements = @ + 1]
  ELSE w

\* withTimeout(promise, timeoutMs, cleanup): the executor sets the timer and
\* registers the reactions; on a promise already settled the first reaction
\* is queued at once
WithTimeout(timeoutMs) ==
  /\ wt.stage = "uncalled"
  /\ wt' = [wt EXCEPT !.stage = "called",
                       !.timeoutMs = timeoutMs,
                       !.timeout = "set",
                       !.micro = IF wt.promise = <<"pending">> THEN <<>> ELSE <<"then">>,
                       !.log = IF wt.promise = <<"pending">> THEN <<>> ELSE <<"settled">>]
  /\ UNCHANGED notTimeout

\* the wrapped promise settles: its reaction is queued
PromiseSettles(how) ==
  /\ wt.stage = "called"
  /\ wt.promise = <<"pending">>
  /\ wt' = [wt EXCEPT !.promise = how,
                       !.micro = <<"then">>,
                       !.log = Append(@, "settled")]
  /\ UNCHANGED notTimeout

\* the reactions with clearTimeout left out
RunMicrotaskNotClearing ==
  /\ wt.micro # <<>>
  /\ wt' = IF wt.promise[1] = "rejected" /\ Head(wt.micro) = "then"
           THEN [wt EXCEPT !.micro = <<"catch">>]
           ELSE [SettleReturned(wt, wt.promise) EXCEPT !.micro = <<>>]
  /\ UNCHANGED notTimeout

\* the next microtask: .then((result) => { clearTimeout(timeout);
\* resolve(result) }), which a rejection passes by to reach
\* .catch((error) => { clearTimeout(timeout); reject(error) })
RunMicrotask ==
  /\ wt.micro # <<>>
  /\ wt' = IF wt.promise[1] = "rejected" /\ Head(wt.micro) = "then"
           THEN [wt EXCEPT !.micro = <<"catch">>]
           ELSE [SettleReturned(wt, wt.promise) EXCEPT
                   !.micro = <<>>,
                   !.timeout = IF @ = "set" THEN "cleared" ELSE @]
  /\ UNCHANGED notTimeout

\* the timer callback, a task run when no microtask is queued:
\* cleanup(); reject(new Error(`Operation timed out after ${timeoutMs}ms`))
TimerFires ==
  /\ wt.timeout = "set"
  /\ wt.now >= wt.timeoutMs
  /\ wt.micro = <<>>
  /\ wt' = [SettleReturned(wt, TimeoutError) EXCEPT
              !.timeout = "fired",
              !.cleanups = @ + 1,
              !.log = Append(@, "fired")]
  /\ UNCHANGED notTimeout

\* time passes, between tasks
Tick ==
  /\ wt.stage = "called"
  /\ wt.micro = <<>>
  /\ wt.now < LastTick
  /\ wt' = [wt EXCEPT !.now = @ + 1]
  /\ UNCHANGED notTimeout

NextTimeout ==
  \/ \E timeoutMs \in 0..MaxTimeoutMs : WithTimeout(timeoutMs)
  \/ \E how \in Settled : PromiseSettles(how)
  \/ RunMicrotask
  \/ TimerFires
  \/ Tick

SpecTimeout == InitTimeout /\ [][NextTimeout]_vars

(***************************************************************************)
(* Vocabulary of the properties.                                           *)
(***************************************************************************)
\* the system calls that write to the file system
WriteOps == {"mkdir", "copyFile", "writeFile", "unzip", "remove",
             "npm install", "npm run build"}
LocalOps == {"copyFile"}
RemoteOps == {"fetch", "writeFile"}
OpsDone == {ops[i] : i \in 1..Len(ops)}
Local == StartsWithFile(moduleUrl)
StartKind == KindAt(fsAtStart, targetDirectory)

\* the manifest of a template of the store, parsed
ManifestOf(name) ==
  LET m == join(PackageRoot, <<"templates", SLASH>> \o name
                             \o <<SLASH, "template.manifest">>)
  IN IF IsFile(PublishedFS, m) THEN ParseManifest(PublishedFS[m].bytes) ELSE <<>>

\* the manifest's paths and their parent directories, relative to the target
ManifestPaths(name) ==
  LET m == ManifestOf(name)
  IN UNION {Prefixes(NormalizeSegs(Split(m[i], SLASH))) : i \in 1..Len(m)}

\* the materializer has returned and no build command has run yet
Materialized == ops # <<>> /\ ops[Len(ops)] = "remove" /\ error = "none"

(***************************************************************************)
(* C1: a target that is a directory with at least one entry is rejected    *)
(* with TargetNotEmpty, in Local and in Remote execution, and the          *)
(* invocation writes nothing: the file system stays what it was.           *)
(***************************************************************************)
C1_NonEmptyRejected ==
  (runs > 0 /\ StartKind = "nonempty") =>
     /\ fs = fsAtStart
     /\ OpsDone \cap WriteOps = {}
     /\ Finished => (outcome = "exit" /\ error = "TargetNotEmpty")

\* both contexts have rejected a non-empty target, the second just now
C1_Witness ==
  /\ Finished /\ StartKind = "nonempty" /\ error = "TargetNotEmpty"
  /\ prev.valid /\ prev.kind = "nonempty" /\ prev.error = "TargetNotEmpty"
  /\ prev.local # Local
  /\ P(<<"tmp", "n", "stale.txt">>) \in DOMAIN fs

(***************************************************************************)
(* C2: a target that exists and is not a directory is rejected with        *)
(* TargetNotDirectory and nothing is written.                              *)
(***************************************************************************)
C2_NotDirectoryRejected ==
  (runs > 0 /\ StartKind = "file") =>
     /\ fs = fsAtStart
     /\ OpsDone \cap WriteOps = {}
     /\ Finished => (outcome = "exit" /\ error = "TargetNotDirectory")

C2_Witness ==
  /\ Finished /\ StartKind = "file" /\ error = "TargetNotDirectory"
  /\ IsFile(fs, targetDirectory)

(***************************************************************************)
(* C3: no write happens before the target validation has passed: when the  *)
(* invocation has made a writing system call, or the file system differs   *)
(* from the one it started on, its first call was the validation's stat    *)
(* and the target was absent or an empty directory.                        *)
(***************************************************************************)
C3_ValidationBeforeWrite ==
  (runs > 0 /\ (OpsDone \cap WriteOps # {} \/ fs # fsAtStart)) =>
     /\ ops[1] = "stat"
     /\ StartKind \in {"absent", "empty"}
     /\ \A i \in 1..Len(ops) : ops[i] \in WriteOps => i > 1

C3_Witness ==
  /\ pc = "unzip" /\ ops[Len(ops)] = "writeFile" /\ fs # fsAtStart

(***************************************************************************)
(* C4: provisioning into an empty directory goes like provisioning into a  *)
(* path that does not exist: it passes the validation and, the             *)
(* environment answering alike, two such invocations of the same template  *)
(* in the same context end with the same outcome and the same tree.        *)
(***************************************************************************)
C4_EmptyLikeAbsent ==
  /\ (Finished /\ StartKind = "empty") =>
        error \notin {"TargetNotEmpty", "TargetNotDirectory", "NotADirectory",
                      "MkdirFailed"}
  /\ (Finished /\ prev.valid /\ {prev.kind, StartKind} = {"absent", "empty"}
        /\ prev.opts = opts /\ prev.local = Local
        /\ prev.env = env /\ prev.npmCodes = npmCodes) =>
        /\ outcome = prev.outcome
        /\ error = prev.error
        /\ Subtree(fs, targetDirectory) = prev.tree

\* an absent and an empty target have both been provisioned
C4_Witness ==
  /\ Finished /\ prev.valid /\ {prev.kind, StartKind} = {"absent", "empty"}
  /\ prev.opts = opts /\ prev.local = Local
  /\ outcome = "ok" /\ prev.outcome = "ok"
  /\ Subtree(fs, targetDirectory) # <<>>

(***************************************************************************)
(* C5: after a successful invocation the target is a directory and every   *)
(* path of the template's manifest exists below it.                        *)
(***************************************************************************)
C5_ManifestPathsExist ==
  (Finished /\ outcome = "ok") =>
     /\ StartKind \in {"absent", "empty"}
     /\ IsDir(fs, targetDirectory)
     /\ ManifestOf(opts.template) # <<>>
     /\ \A i \in 1..Len(ManifestOf(opts.template)) :
          Exists(fs, join(targetDirectory, ManifestOf(opts.template)[i]))

\* both contexts have succeeded
C5_Witness ==
  /\ Finished /\ outcome = "ok" /\ prev.valid /\ prev.outcome = "ok"
  /\ prev.local # Local

(***************************************************************************)
(* C6: when the materializer has returned, the target holds exactly the    *)
(* manifest's paths and their parent directories: no archive, no manifest  *)
(* file, nothing else.                                                     *)
(***************************************************************************)
C6_ExactlyManifest ==
  Materialized =>
     DOMAIN Subtree(fs, targetDirectory) = ManifestPaths(opts.template)

C6_Witness ==
  /\ Materialized /\ opts.template = <<"cli">>
  /\ TempZipPath \notin DOMAIN fs
  /\ Cardinality(DOMAIN Subtree(fs, targetDirectory)) = 4

(***************************************************************************)
(* C7: a Local and a Remote invocation of the same template on targets in  *)
(* the same initial state that both succeed leave the same tree, contents  *)
(* included.                                                               *)
(***************************************************************************)
C7_LocalRemoteSameTree ==
  (Finished /\ outcome = "ok" /\ prev.valid /\ prev.outcome = "ok"
     /\ prev.local # Local /\ prev.opts = opts /\ prev.kind = StartKind
     /\ prev.npmCodes = npmCodes) =>
     Subtree(fs, targetDirectory) = prev.tree

C7_Witness ==
  /\ Finished /\ outcome = "ok" /\ prev.valid /\ prev.outcome = "ok"
  /\ prev.local # Local /\ prev.opts = opts /\ prev.kind = StartKind
  /\ prev.npmCodes = npmCodes
  /\ Cardinality(DOMAIN prev.tree) >= 3

(***************************************************************************)
(* C8, as stated: in every invocation exactly one materializer runs.       *)
(***************************************************************************)
C8_Original ==
  Finished => materializer \in {"Local", "Remote"}

(***************************************************************************)
(* C8, amended: in every invocation whose target validation passes exactly *)
(* one materializer runs, the Local one if and only if the module URL      *)
(* starts with file://, whatever the options; no invocation runs both.     *)
(***************************************************************************)
C8_OneMaterializerByScheme ==
  runs > 0 =>
     /\ (OpsDone \cap LocalOps # {}) => Local
     /\ (OpsDone \cap RemoteOps # {}) => ~Local
     /\ materializer # "none" => materializer = (IF Local THEN "Local" ELSE "Remote")
     /\ (pc # "validate" /\ StartKind \in {"absent", "empty"}) =>
           materializer # "none"
     /\ (Finished /\ StartKind \in {"absent", "empty"}) =>
           (OpsDone \cap LocalOps # {}) # (OpsDone \cap RemoteOps # {})

\* the same options have gone through either materializer
C8_Witness ==
  /\ Finished /\ prev.valid /\ prev.opts = opts /\ prev.local # Local
  /\ "copyFile" \in OpsDone /\ opts.template = <<"cli">> /\ opts.build

(***************************************************************************)
(* C9: when the chosen materializer fails, the invocation ends in failure  *)
(* there: no step of the other materializer has run and no step has run    *)
(* twice.                                                                  *)
(***************************************************************************)
C9_NoFallbackNoRetry ==
  (materializer # "none" /\ error # "none") =>
     /\ Finished
     /\ outcome \in {"exit", "rejected"}
     /\ (materializer = "Local") => OpsDone \cap RemoteOps = {}
     /\ (materializer = "Remote") => OpsDone \cap LocalOps = {}
     /\ \A i, j \in 1..Len(ops) : ops[i] = ops[j] => i = j

\* the Local materializer has failed on a template without an archive
C9_Witness ==
  /\ Finished /\ materializer = "Local" /\ error = "CopyFailed"
  /\ outcome = "rejected"

(***************************************************************************)
(* C10: the Local materializer of the file-by-file engine copies every     *)
(* entry e of templateFiles from the template directory to the target, to  *)
(* e without a trailing .template; the parent directory of the destination *)
(* exists before the copy, and after success every destination holds the   *)
(* content of its source.                                                  *)
(***************************************************************************)
\* e', told from e without destinationPath
WithoutTemplateSuffix(e) ==
  IF e[Len(e)] = ".template" THEN [k \in 1..(Len(e) - 1) |-> e[k]] ELSE e
StoreFile(e) == join(P(<<"app", "template">>), e)

C10_LocalCopies ==
  (materializer = "Local" /\ tasks # <<>>) =>
     \A i \in 1..Len(templateFiles) :
       LET dest == join(targetDirectory, WithoutTemplateSuffix(templateFiles[i]))
       IN /\ tasks[i] \in {"copy", "done"} => IsDir(fs, dirname(dest))
          /\ (tasks[i] = "done" \/ (Finished /\ outcome = "ok")) =>
                /\ IsFile(fs, dest)
                /\ fs[dest] = RepositoryFS[StoreFile(templateFiles[i])]
          /\ tasks[i] = "mkdir" => dest \notin DOMAIN fs

\* every file has been copied, the suffixed ones under their stripped names
C10_Witness ==
  /\ Finished /\ outcome = "ok" /\ materializer = "Local"
  /\ \A i \in 1..Len(templateFiles) : tasks[i] = "done"
  /\ IsFile(fs, join(targetDirectory, <<"src", SLASH, "Main.ts">>))
  /\ join(targetDirectory, <<"src", SLASH, "Main.ts", ".template">>) \notin DOMAIN fs

(***************************************************************************)
(* C11: when the server answers the GET of the archive with a status       *)
(* outside 200..299, the invocation ends there with DownloadFailed for     *)
(* that status, and no <name>.zip is in the target: nothing was written.   *)
(***************************************************************************)
C11_DownloadFailed ==
  (runs > 0 /\ httpStatus # 0 /\ httpStatus \notin 200..299) =>
     /\ Finished
     /\ outcome = "exit" /\ error = "DownloadFailed"
     /\ env = <<httpStatus>>
     /\ TempZipPath \notin DOMAIN fs
     /\ OpsDone \cap WriteOps = {}

\* the archive of a template the server does not have was asked for: 404
C11_Witness ==
  /\ Finished /\ ~Local /\ httpStatus = 404 /\ error = "DownloadFailed"
  /\ opts.template = <<"ghost">>
  /\ Served(ArchiveUrlPath) = <<>>

(***************************************************************************)
(* C12, as stated: once the archive has been written into the target and   *)
(* the extraction attempted, the archive is removed, whether the           *)
(* extraction succeeded or failed: no invocation ends after a failed       *)
(* extraction with the archive still in the target.                        *)
(***************************************************************************)
C12_ArchiveRemovedAfterExtraction ==
  (Finished /\ "unzip" \in OpsDone /\ error = "UnzipFailed") =>
     TempZipPath \notin DOMAIN fs

(***************************************************************************)
(* C13: with build = true the engine runs `npm install` once the           *)
(* materializer has returned and `npm run build` once the install has run  *)
(* to completion, both in the target directory; with build = false         *)
(* neither is run.                                                         *)
(***************************************************************************)
C13_InstallThenBuild ==
  runs > 0 =>
     /\ \A i \in 1..Len(ops) :
          /\ ops[i] = "npm install" =>
                opts.build /\ i > 1 /\ ops[i - 1] = "remove"
                /\ TempZipPath \notin DOMAIN fs
          /\ ops[i] = "npm run build" =>
                opts.build /\ i > 1 /\ ops[i - 1] = "npm install"
                /\ Len(npmCodes) >= 1
     /\ ~opts.build => OpsDone \cap {"npm install", "npm run build"} = {}
     /\ (Finished /\ outcome = "ok" /\ opts.build) =>
          /\ Len(ops) >= 2 /\ Len(npmCodes) = 2
          /\ ops[Len(ops) - 1] = "npm install" /\ ops[Len(ops)] = "npm run build"
     /\ (Len(npmCodes) >= 1 /\ npmCodes[1] = 0) =>
          IsDir(fs, join(targetDirectory, <<"node_modules">>))
     /\ (Len(npmCodes) = 2 /\ npmCodes[2] = 0) =>
          IsDir(fs, join(targetDirectory, <<"output">>))

C13_Witness ==
  /\ Finished /\ outcome = "ok" /\ opts.build /\ npmCodes = <<0, 0>>
  /\ IsDir(fs, join(targetDirectory, <<"output">>))
  /\ prev.valid /\ prev.outcome = "ok" /\ ~prev.opts.build

C15_Defaults ==
  runs > 0 =>
     LET t == IF "template" \in DOMAIN options THEN options.template ELSE <<"server">>
         b == IF "build" \in DOMAIN options THEN options.build ELSE FALSE
         z == join(targetDirectory, t \o <<".zip">>)
     IN /\ pc = "unzip" =>
             /\ IsFile(fs, z)
             /\ fs[z] = PublishedFS[join(PackageRoot, <<"templates", SLASH>> \o t
                                                     \o <<".zip">>)]
        /\ OpsDone \cap {"npm install", "npm run build"} # {} => b
        /\ (Finished /\ outcome = "ok") =>
             /\ b <=> "npm run build" \in OpsDone
             /\ ManifestPaths(t) # {}
             /\ \A q \in ManifestPaths(t) : targetDirectory \o q \in DOMAIN fs

\* the caller gave no option at all and the server template was provisioned
C15_Witness ==
  /\ Finished /\ outcome = "ok" /\ DOMAIN options = {}
  /\ IsFile(fs, join(targetDirectory, <<"package.json">>))
  /\ OpsDone \cap {"npm install", "npm run build"} = {}

(***************************************************************************)
(* C17, as stated: when the requested template has no manifest the         *)
(* invocation fails, and it fails before anything has been written or      *)
(* deleted: the file system is still the one the invocation started on.    *)
(***************************************************************************)
C17_NoManifestFailsBeforeWrite ==
  (runs > 0 /\ ManifestOf(opts.template) = <<>>) =>
     /\ fs = fsAtStart
     /\ Finished => outcome \in {"exit", "rejected"}

(***************************************************************************)
(* C19, as stated: no invocation, successful or failed, creates, changes   *)
(* or deletes anything in the template store: the package directory with   *)
(* the templates' files, manifests and archives stays what it was.         *)
(***************************************************************************)
C19_StoreUntouched ==
  /\ fs[PackageRoot] = PublishedFS[PackageRoot]
  /\ Subtree(fs, PackageRoot) = Subtree(PublishedFS, PackageRoot)

(***************************************************************************)
(* C20: a failing step takes back nothing of what the invocation wrote,    *)
(* and after an invocation that failed with at least one entry written     *)
(* into its target, the next invocation on that target is rejected with    *)
(* TargetNotEmpty and leaves the target as the failed one left it.         *)
(***************************************************************************)
C20_NoRollbackThenRejected ==
  /\ []((Finished /\ prev.valid /\ prev.outcome \in {"exit", "rejected"}
           /\ prev.kind \in {"absent", "empty"} /\ DOMAIN prev.tree # {}
           /\ targetDirectory = prev.target) =>
          /\ outcome = "exit" /\ error = "TargetNotEmpty"
          /\ Subtree(fs, targetDirectory) = prev.tree)
  /\ [][(outcome = "running" /\ (outcome' = "exit" \/ outcome' = "rejected")) =>
          (\A p \in DOMAIN fs : p \in DOMAIN fs' /\ fs'[p] = fs[p])]_vars

\* the extraction failed half way, and the retry was turned down
C20_Witness ==
  /\ Finished /\ error = "TargetNotEmpty"
  /\ prev.valid /\ prev.error = "UnzipFailed" /\ prev.target = targetDirectory
  /\ prev.kind = "absent" /\ Cardinality(DOMAIN prev.tree) >= 2

(***************************************************************************)
(* C16, as stated: a command line that carries a flag other than --build   *)
(* and --template ends with exit code 1 (Deno.exit(1), or the exception    *)
(* parseArgs throws) and no system call on the file system has been made.  *)
(***************************************************************************)
\* what follows the dashes of a flag, up to its value
FlagName(arg) ==
  LET rest == Tail(arg)
      eq == IndexOf(rest, "=")
  IN IF eq = 0 THEN rest ELSE SubSeq(rest, 1, eq - 1)
CarriesUnknownFlag(args) ==
  \E i \in 1..Len(args) :
    /\ \A j \in 1..i : args[j] # <<"--">>
    /\ IsFlag(args[i])
    /\ FlagName(args[i]) \notin {<<"build">>, <<"template">>}

C16_UnknownFlagIsUsageError ==
  (runs > 0 /\ CarriesUnknownFlag(cliArgs)) =>
     /\ Finished
     /\ outcome \in {"exit", "rejected"}
     /\ error \in {"UnknownArgument", "TooManyArguments", "TypeError"}
     /\ ops = <<>>
     /\ fs = fsAtStart

(***************************************************************************)
(* C18, as stated: whenever the publish script has exited, whether the     *)
(* zipping failed, `deno publish` failed or all went well, no archive the  *)
(* run created is left in the templates directory.                         *)
(***************************************************************************)
C18_ZipsDeletedAtExit ==
  Finished =>
     \A z \in Children(fs, TemplatesDir) :
       ~(/\ IsFile(fs, z)
         /\ EndsWith(z[Len(z)], ".zip")
         /\ \E i \in 1..Len(ops) :
              ops[i] = <<"zip", SubSeq(z[Len(z)], 1, Len(z[Len(z)]) - 1)>>)

(***************************************************************************)
(* C21: in the Local materializer with concurrent copies, success is       *)
(* reported only when every copy has completed, and then at once; a        *)
(* failure is reported in the step in which the first copy fails, while    *)
(* other copies may still be in flight; no build command starts while a    *)
(* copy is in flight (the engine with concurrent copies runs none).        *)
(***************************************************************************)
NpmOps == {"npm install", "npm run build"}
TasksIn(S) == {i \in DOMAIN tasks : tasks[i] \in S}

DestinationsDistinct ==
  \A i, j \in 1..Len(templateFiles) :
    i # j => NormalizeSegs(Split(destinationPath(templateFiles[i]), SLASH))
             # NormalizeSegs(Split(destinationPath(templateFiles[j]), SLASH))

C22_DisjointDestinations ==
  /\ DestinationsDistinct
  /\ (tasks # <<>> /\ materializer = "Local") =>
        \A i \in DOMAIN tasks :
          IF tasks[i] = "done"
          THEN /\ IsFile(fs, DestPath(i))
               /\ fs[DestPath(i)] = RepositoryFS[StoreFile(templateFiles[i])]
          ELSE DestPath(i) \notin DOMAIN fs

\* a copy has failed between two that were made, the suffixed entry under
\* its stripped name
C22_Witness ==
  /\ materializer = "Local" /\ tasks # <<>>
  /\ tasks[1] = "done" /\ tasks[2] = "done" /\ tasks[7] = "failed" /\ tasks[8] = "done"
  /\ fs[DestPath(2)].bytes = <<"content of">> \o templateFiles[2]
  /\ fs[DestPath(1)].bytes = <<"content of">> \o templateFiles[1]
  /\ DestPath(7) \notin DOMAIN fs

(***************************************************************************)
(* C23: the steps of the Remote materializer come in one order, one at a   *)
(* time: fetch, mkdir, writeFile, unzip, remove.  When the directory is    *)
(* about to be created the response has been received and nothing is       *)
(* written yet; when the extraction is about to start the archive holds    *)
(* the whole body; when the archive is about to be removed every entry     *)
(* has been extracted.                                                     *)
(***************************************************************************)
RemoteSteps == <<"fetch", "mkdir", "writeFile", "unzip", "remove">>
\* the system calls after those of the validation
AfterValidation ==
  LET k == IF Len(ops) >= 2 /\ ops[2] = "readDir" THEN 2 ELSE 1
  IN SubSeq(ops, k + 1, Len(ops))
RemotePosition ==
  <<"fetch", "remote_mkdir", "remote_write", "unzip", "remove">>

C23_RemoteStepsInOrder ==
  materializer = "Remote" =>
     LET done == AfterValidation
         n == IF Len(done) < Len(RemoteSteps) THEN Len(done) ELSE Len(RemoteSteps)
     IN /\ SubSeq(done, 1, n) = SubSeq(RemoteSteps, 1, n)
        /\ \A i \in (n + 1)..Len(done) : done[i] \in NpmOps
        /\ (outcome = "running" /\ pc \notin {"install", "build"}) =>
             /\ Len(done) < Len(RemoteSteps)
             /\ pc = RemotePosition[Len(done) + 1]
        /\ pc = "remote_mkdir" =>
             zipData # <<>> /\ ResponseOk(httpStatus) /\ fs = fsAtStart
        /\ pc = "remote_write" => TempZipPath \notin DOMAIN fs
        /\ pc = "unzip" => IsFile(fs, TempZipPath) /\ fs[TempZipPath] = zipData[1]
        /\ pc = "remove" =>
             /\ IsFile(fs, TempZipPath)
             /\ \A i \in 1..Len(zipData[1].entries) :
                  Exists(fs, join(targetDirectory, zipData[1].entries[i].path))

\* the download has gone through all five steps
C23_Witness ==
  /\ materializer = "Remote" /\ Finished /\ outcome = "ok" /\ ~opts.build
  /\ AfterValidation = RemoteSteps
  /\ TempZipPath \notin DOMAIN fs
  /\ StartKind = "absent"

(***************************************************************************)
(* C24, as stated: when the extraction has succeeded and the removal of    *)
(* the archive fails, the invocation does not fail: it goes on to the      *)
(* build when build = true and ends successfully.                          *)
(***************************************************************************)
C24_RemoveFailureNotFatal ==
  (ops # <<>> /\ "remove" \in OpsDone /\ TempZipPath \in DOMAIN fs) =>
     /\ outcome \in {"running", "ok"}
     /\ Finished => (opts.build <=> "npm run build" \in OpsDone)

(***************************************************************************)
(* C25: for every remote module URL and every template name, the URL       *)
(* fetched has the scheme and the host of the module URL, and its path is  *)
(* the module's path without its last segment, followed by                 *)
(* /templates/<name>.zip (as URL paths: dot segments resolved); a 200      *)
(* answer carries what the server holds at that path.                      *)
(***************************************************************************)
\* the segments of the module's path
OriginSegments == Tail(Split(Pathname(moduleUrl), SLASH))
ExpectedArchivePath ==
  NormalizeSegs(dirname(OriginSegments) \o <<<<"templates">>>>
                \o Split(opts.template \o <<".zip">>, SLASH))

Touched ==
  {p \in DOMAIN fs \cup DOMAIN fsAtStart :
     p \notin DOMAIN fs \/ p \notin DOMAIN fsAtStart \/ fs[p] # fsAtStart[p]}

C27_ArchiveInsideTarget ==
  runs > 0 =>
     /\ \A p \in Touched : IsPrefix(targetDirectory, p) \/ IsPrefix(p, targetDirectory)
     /\ pc \in {"unzip", "remove"} => IsStrictPrefix(targetDirectory, TempZipPath)

(***************************************************************************)
(* C28: in Remote execution a download answered with a status outside      *)
(* 200..299 leaves the file system exactly as the invocation found it: a   *)
(* target that was absent is still absent, nothing lies in one that was    *)
(* empty, and the fetch was the only call after the validation.            *)
(***************************************************************************)
C28_FailedDownloadWritesNothing ==
  (runs > 0 /\ ~Local /\ error = "DownloadFailed") =>
     /\ ~ResponseOk(httpStatus)
     /\ fs = fsAtStart
     /\ AfterValidation = <<"fetch">>
     /\ StartKind = "absent" => ~Exists(fs, targetDirectory)
     /\ StartKind = "empty" => Children(fs, targetDirectory) = {}

\* the server failed on a target that does not exist, nor does its parent
C28_Witness ==
  /\ Finished /\ ~Local /\ error = "DownloadFailed" /\ httpStatus = 500
  /\ targetDirectory = P(<<"tmp", "new", "x">>)
  /\ ~Exists(fs, P(<<"tmp", "new">>))

(***************************************************************************)
(* C29: in Local execution, when the packaged archive of the requested     *)
(* template does not exist, the invocation fails having made the target    *)
(* directory (and nothing else): the directory exists and is empty.  The   *)
(* next invocation on that target passes the target validation.            *)
(***************************************************************************)
C29_MissingArchiveLeavesEmptyTarget ==
  /\ (runs > 0 /\ Local /\ materializer = "Local"
        /\ ~IsFile(fsAtStart, TemplateZipPath) /\ "copyFile" \in OpsDone) =>
        /\ Finished /\ outcome = "rejected" /\ error = "CopyFailed"
        /\ fs = MkdirP(fsAtStart, targetDirectory)
        /\ IsDir(fs, targetDirectory)
        /\ Children(fs, targetDirectory) = {}
  /\ (prev.valid /\ prev.local /\ prev.error = "CopyFailed"
        /\ prev.target = targetDirectory /\ pc # "validate") =>
        /\ StartKind = "empty"
        /\ materializer # "none"
        /\ error \notin {"TargetNotEmpty", "TargetNotDirectory", "NotADirectory"}

\* the archive of ghost was missing; the retry with server on the directory
\* the failed invocation made has succeeded
C29_Witness ==
  /\ Finished /\ outcome = "ok" /\ opts.template = <<"server">>
  /\ prev.valid /\ prev.local /\ prev.error = "CopyFailed"
  /\ prev.kind = "absent" /\ prev.opts.template = <<"ghost">>
  /\ prev.target = targetDirectory /\ prev.tree = <<>>

(***************************************************************************)
(* C26: parsing a manifest text gives its lines (the pieces between the    *)
(* line feeds), each without the whitespace around it, the empty ones      *)
(* left out, in the order of the text: no entry is empty or has            *)
(* whitespace at either end, and nothing else is dropped, doubled or       *)
(* moved.                                                                  *)
(***************************************************************************)
\* where the lines of a text start, and where the line starting at s ends
LineStarts(text) == {1} \cup {j + 1 : j \in {k \in 1..Len(text) : text[k] = NL}}
LineEnd(text, s) ==
  LET feeds == {j \in s..Len(text) : text[j] = NL}
  IN IF feeds = {} THEN Len(text)
     ELSE (CHOOSE j \in feeds : \A k \in feeds : j <= k) - 1
\* the line starting at s from its first to its last token that is no whitespace
Core(text, s) ==
  LET ink == {k \in s..LineEnd(text, s) : text[k] \notin Whitespace}
  IN IF ink = {} THEN <<>>
     ELSE SubSeq(text, CHOOSE k \in ink : \A l \in ink : k <= l,
                       CHOOSE k \in ink : \A l \in ink : l <= k)
ExpectedLines(text) ==
  LET RECURSIVE from(_)
      from(S) ==
        IF S = {} THEN <<>>
        ELSE LET s == CHOOSE x \in S : \A y \in S : x <= y
             IN (IF Core(text, s) = <<>> THEN <<>> ELSE <<Core(text, s)>>)
                \o from(S \ {s})
  IN from(LineStarts(text))

C26_ManifestLines ==
  outcome = "ok" =>
     /\ filesToInclude = ExpectedLines(manifestContent)
     /\ \A i \in 1..Len(filesToInclude) :
          /\ filesToInclude[i] # <<>>
          /\ filesToInclude[i][1] \notin Whitespace
          /\ filesToInclude[i][Len(filesToInclude[i])] \notin Whitespace

\* an indented line ended by a carriage return and a line feed, and a line
\* without line feed after it
C26_Witness ==
  /\ outcome = "ok"
  /\ manifestContent = <<" ", "a", "\r", NL, "b">>
  /\ filesToInclude = << <<"a">>, <<"b">> >>

(***************************************************************************)
(* C30: the promise withTimeout returns settles once: with the outcome of  *)
(* the wrapped promise when that settles before the timer fires, with the  *)
(* timeout error when the timer fires first; it stays pending only while   *)
(* the timer is set or a reaction is queued.  cleanup is called if and     *)
(* only if the timer fired before the wrapped promise settled, and at      *)
(* most once.                                                              *)
(***************************************************************************)
C30_SettlesOnce ==
  wt.stage = "called" =>
     /\ wt.settlements <= 1
     /\ wt.settlements = 1 <=> wt.returned # <<"pending">>
     /\ wt.returned = <<"pending">> => (wt.timeout = "set" \/ wt.micro # <<>>)
     /\ wt.cleanups <= 1
     /\ wt.cleanups = 1 <=> (wt.log # <<>> /\ wt.log[1] = "fired")
     /\ "fired" \in {wt.log[i] : i \in 1..Len(wt.log)} => wt.log[1] = "fired"
     /\ (wt.log # <<>> /\ wt.log[1] = "fired") => wt.returned = TimeoutError
     /\ (wt.log # <<>> /\ wt.log[1] = "settled") =>
          /\ wt.returned \in {<<"pending">>, wt.promise}
          /\ wt.micro = <<>> => (wt.returned = wt.promise /\ wt.timeout = "cleared")

\* the wrapped promise has been rejected after the timer had fired, and its
\* reactions have run
C30_Witness ==
  /\ wt.stage = "called" /\ wt.log = <<"fired", "settled">> /\ wt.micro = <<>>
  /\ wt.promise = <<"rejected", "e1">>
  /\ wt.returned = TimeoutError /\ wt.cleanups = 1 /\ wt.settlements = 1
  /\ wt.timeoutMs = 1

====
